---- MODULE Spec2Model ----
(***************************************************************************)
(* FLEX pager decoder (decoder_modules/pager_decoder/src/flex):            *)
(* the FlexDecoder facade with its frame state machine, synchronizer,      *)
(* data collector, BCH error corrector and group registry.                 *)
(*                                                                         *)
(* Representation of machine words:                                        *)
(*   uint32_t  is a pair <<hi, lo>> of 16-bit halves,                      *)
(*   uint64_t  is a tuple <<c3, c2, c1, c0>> of 16-bit chunks (c3 highest),*)
(* so that every shift and mask keeps its width.                           *)
(***************************************************************************)
EXTENDS Integers, Sequences, FiniteSets, TLC

VARIABLES
    sm,         \* FlexDecoder + FlexStateMachine: current_state, fiw_count, fiw_raw_data, sync2_count, data_count, sync_info;
                \* fp_sync_info is FlexFrameProcessor::sync_info_
    demod,      \* FlexDemodulator: locked, current_baud, lock_buffer, modal_symbol
    syn,        \* FlexSynchronizer: sync_buffer, last_polarity
    dc,         \* FlexDataCollector: data_bit_counter, phase_toggle, baud_rate, fsk_levels, phase_a..phase_d
    groups,     \* FlexGroupHandler::groups_
    frames,     \* calls made to FlexFrameProcessor::processFrame, in order, each with the messages it returned and the lines it had printed
    obs,        \* what the last processSingleSample call did (state and baud it ran at, symbol dispatched)
    tx,         \* the transmission being received: scenario and position in its symbol script
    call,       \* last operation invoked directly on the group registry, with its arguments and result
    registered  \* per group bit: the capcodes registered since the group was last cleared

vars == <<sm, demod, syn, dc, groups, frames, obs, tx, call, registered>>

----------------------------------------------------------------------------
(* Bit helpers *)

BitOf(x, i) == (x \div (2 ^ i)) % 2

RECURSIVE XorBits(_, _, _)
XorBits(a, b, n) ==
    IF n = 0 THEN 0
    ELSE ((a + b) % 2) + 2 * XorBits(a \div 2, b \div 2, n - 1)

Xor16(a, b) == XorBits(a, b, 16)

Not16(a) == 65535 - a

PopCount16(a) == Cardinality({i \in 0..15 : BitOf(a, i) = 1})

U32Zero == <<0, 0>>
U32Ones == <<65535, 65535>>

\* bit b (0 = least significant) of a 32-bit word
U32Bit(w, b) == IF b >= 16 THEN BitOf(w[1], b - 16) ELSE BitOf(w[2], b)

\* (w >> 1) | (bit ? 0x80000000 : 0)
U32ShrIns(w, bit) ==
    <<(w[1] \div 2) + (IF bit THEN 32768 ELSE 0),
      (w[2] \div 2) + 32768 * (w[1] % 2)>>

RECURSIVE U32Field(_, _, _)
\* (w >> s) & (2^n - 1)
U32Field(w, s, n) ==
    IF n = 0 THEN 0 ELSE U32Bit(w, s) + 2 * U32Field(w, s + 1, n - 1)

----------------------------------------------------------------------------
(* BCHCode (BCH(31,21,5) over GF(2^5)) *)

BCH_M == 5
BCH_N == 31
BCH_K == 21

\* primitive polynomial coefficients p[0..5] handed to the constructor
BCH_P == <<1, 0, 1, 0, 0, 1>>

RECURSIVE AlphaToM(_)
AlphaToM(i) ==
    IF i = 0 THEN 0
    ELSE XorBits(AlphaToM(i - 1), IF BCH_P[i] # 0 THEN 2 ^ (i - 1) ELSE 0, BCH_M)

\* the value generateGaloisField stores in alpha_to_[i], prev being alpha_to_[i - 1];
\* entry n is never assigned and keeps the 0 that resize() gave it
AlphaStep(i, prev) ==
    IF i < BCH_M THEN 2 ^ i
    ELSE IF i = BCH_M THEN AlphaToM(BCH_M)
    ELSE IF i = BCH_N THEN 0
    ELSE IF prev >= 2 ^ (BCH_M - 1)
         THEN XorBits(AlphaToM(BCH_M), (prev - 2 ^ (BCH_M - 1)) * 2, BCH_M)
         ELSE prev * 2

RECURSIVE generateGaloisField(_)
\* generateGaloisField: the table alpha_to_[0..i]
generateGaloisField(i) ==
    IF i = 0 THEN <<1>>
    ELSE CHOOSE r \in {Append(t, AlphaStep(i, t[i])) : t \in {generateGaloisField(i - 1)}} : TRUE

GaloisField == generateGaloisField(BCH_N)

alpha_to == [i \in 0..BCH_N |-> GaloisField[i + 1]]

index_of[v \in 0..BCH_N] ==
    IF v = 0 THEN -1
    ELSE CHOOSE i \in 0..(BCH_N - 1) : alpha_to[i] = v

\* syndrome i in polynomial form: XOR of alpha_to[(i*j) % n] over the set positions j
RECURSIVE SyndromeFrom(_, _, _)
SyndromeFrom(received, i, j) ==
    IF j = BCH_N THEN 0
    ELSE XorBits(IF received[j + 1] # 0 THEN alpha_to[(i * j) % BCH_N] ELSE 0,
                 SyndromeFrom(received, i, j + 1), BCH_M)

Syndrome(received, i) == SyndromeFrom(received, i, 0)

FlipAt(received, pos) == [received EXCEPT ![pos + 1] = 1 - @]

\* Chien search: the i in 1..n at which 1 ^ alpha^(elp1 + i) ^ alpha^(elp2 + 2i) vanishes
ChienSet(elp1, elp2) ==
    {k \in 1..BCH_N :
        XorBits(XorBits(1, alpha_to[(elp1 + k) % BCH_N], BCH_M),
                alpha_to[(elp2 + 2 * k) % BCH_N], BCH_M) = 0}

\* variant of ChienRoots that records i itself, so that the root at i = n is position n
ChienRootsNoWrap(elp1, elp2) == ChienSet(elp1, elp2)

\* the error positions i % n the Chien loop records
ChienRoots(elp1, elp2) == {k % BCH_N : k \in ChienSet(elp1, elp2)}

RECURSIVE FlipAll(_, _)
FlipAll(received, locs) ==
    IF locs = {} THEN received
    ELSE FlipAll(FlipAt(received, CHOOSE x \in locs : TRUE),
                 locs \ {CHOOSE x \in locs : TRUE})

\* decode, two-error case: the roots of the locator with coefficients elp1, elp2
decodeChien(received, elp1, elp2) ==
    IF Cardinality(ChienSet(elp1, elp2)) = 2
    THEN [retval |-> 0, received |-> FlipAll(received, ChienRoots(elp1, elp2))]
    ELSE [retval |-> 1, received |-> received]

\* decode, two-error case: aux is the index form of alpha^(3 s1) ^ S3
decodeLocator(received, s, aux) ==
    decodeChien(received, (s[2] - aux + BCH_N) % BCH_N, (s[1] - aux + BCH_N) % BCH_N)

\* decode from the syndromes in polynomial form sp and in index form s
decodeSyndromes(received, sp, s) ==
    IF \A i \in 1..4 : sp[i] = 0 THEN [retval |-> 0, received |-> received]
    ELSE IF s[1] # -1
    THEN IF s[3] = (s[1] * 3) % BCH_N
         THEN [retval |-> 0, received |-> FlipAt(received, s[1])]
         ELSE decodeLocator(received, s,
                  index_of[IF s[3] # -1
                           THEN XorBits(alpha_to[(s[1] * 3) % BCH_N], alpha_to[s[3]], BCH_M)
                           ELSE alpha_to[(s[1] * 3) % BCH_N]])
    ELSE IF s[2] # -1 THEN [retval |-> 1, received |-> received]
    ELSE [retval |-> 0, received |-> received]

IndexForm(sp) == SubSeq([i \in 1..4 |-> index_of[sp[i]]], 1, 4)

\* BCHCode::decode(int *received): [retval, received]
decode(received) ==
    CHOOSE r \in {decodeSyndromes(received, sp, IndexForm(sp)) :
                     sp \in {SubSeq([i \in 1..4 |-> Syndrome(received, i)], 1, 4)}} : TRUE

RECURSIVE BitsVal(_, _)
\* value of the first n coefficients read as a binary number, first one most significant
BitsVal(bits, n) == IF n = 0 THEN 0 ELSE 2 * BitsVal(bits, n - 1) + bits[n]

\* fixErrors after the call of decode: the corrected bits packed back into the word
fixResult(data, r) ==
    IF r.retval = 0
    THEN [ok |-> TRUE, data |-> <<BitsVal(r.received, BCH_N) \div 65536,
                                  BitsVal(r.received, BCH_N) % 65536>>]
    ELSE [ok |-> FALSE, data |-> data]

\* FlexErrorCorrector::fixErrors(uint32_t &data, char phase_id): [ok, data]
fixErrors(data) ==
    CHOOSE r \in {fixResult(data, decode(received)) :
                     received \in {SubSeq([i \in 1..BCH_N |-> U32Bit(data, 31 - i)],
                                          1, BCH_N)}} : TRUE

BCH_T == 2

RECURSIVE CycleSet(_, _)
\* generatePolynomial: the cycle set of ll modulo n, from its element cur onwards
CycleSet(ll, cur) ==
    IF (cur * 2) % BCH_N = ll THEN <<cur>>
    ELSE <<cur>> \o CycleSet(ll, (cur * 2) % BCH_N)

RECURSIVE ZerosFrom(_)
\* generatePolynomial: zeros[], the cycle sets with representative >= ll that hold one of
\* the roots 1..2t, one after the other
ZerosFrom(ll) ==
    IF ll = BCH_N THEN <<>>
    ELSE (IF /\ \A k \in 1..Len(CycleSet(ll, ll)) : CycleSet(ll, ll)[k] >= ll
             /\ \E k \in 1..Len(CycleSet(ll, ll)) : CycleSet(ll, ll)[k] \in 1..(2 * BCH_T)
          THEN CycleSet(ll, ll) ELSE <<>>) \o ZerosFrom(ll + 1)

Zeros == ZerosFrom(1)

\* generatePolynomial: g(x) multiplied by (x + alpha^z); g[jj] is the coefficient g_[jj - 1]
GenStep(g, z) ==
    [jj \in 1..(Len(g) + 1) |->
        IF jj = Len(g) + 1 THEN 1
        ELSE IF jj = 1 THEN alpha_to[(index_of[g[1]] + z) % BCH_N]
        ELSE IF g[jj] # 0
             THEN XorBits(g[jj - 1], alpha_to[(index_of[g[jj]] + z) % BCH_N], BCH_M)
             ELSE g[jj - 1]]

RECURSIVE generatePolynomial(_)
\* generatePolynomial: g_[0..ii] once the zeros 1..ii are multiplied in
generatePolynomial(ii) ==
    IF ii = 1 THEN <<alpha_to[Zeros[1]], 1>>
    ELSE CHOOSE r \in {GenStep(t, Zeros[ii]) : t \in {generatePolynomial(ii - 1)}} : TRUE

BCH_G == generatePolynomial(Len(Zeros))

\* encode(int *data): one pass of the loop, data bit d entering the register bb_
EncodeStep(bb, d) ==
    SubSeq([j \in 1..(BCH_N - BCH_K) |->
               IF j = 1 THEN (IF BCH_G[1] # 0 /\ d # bb[BCH_N - BCH_K] THEN 1 ELSE 0)
               ELSE IF BCH_G[j] # 0 /\ d # bb[BCH_N - BCH_K] THEN 1 - bb[j - 1]
               ELSE bb[j - 1]],
           1, BCH_N - BCH_K)

RECURSIVE encodeFrom(_, _)
\* encode(int *data): bb_ after the passes i = k - 1 down to i
encodeFrom(data, i) ==
    IF i = BCH_K THEN [j \in 1..(BCH_N - BCH_K) |-> 0]
    ELSE CHOOSE r \in {EncodeStep(t, data[i + 1]) : t \in {encodeFrom(data, i + 1)}} : TRUE

\* BCHCode::encode(const std::vector<int> &data): the data bits, then the redundancy bits
encode(data) == data \o encodeFrom(data, 0)

\* fixErrors: the number of positions the correction changed (countBits of the error mask)
errorsFixed(before, after) == Cardinality({i \in 1..BCH_N : before[i] # after[i]})

----------------------------------------------------------------------------
(* FlexSynchronizer *)

SYNC_MARKER == <<42694, 43690>>      \* 0xA6C6AAAA
HAMMING_THRESHOLD == 4

\* {sync_code, baud_rate, levels}, in table order
FLEX_MODES == <<
    [sync_code |-> 34572, baud_rate |-> 1600, levels |-> 2],     \* 0x870C
    [sync_code |-> 45160, baud_rate |-> 1600, levels |-> 4],     \* 0xB068
    [sync_code |-> 31512, baud_rate |-> 3200, levels |-> 2],     \* 0x7B18
    [sync_code |-> 56992, baud_rate |-> 3200, levels |-> 4],     \* 0xDEA0
    [sync_code |-> 19580, baud_rate |-> 3200, levels |-> 4] >>   \* 0x4C7C

\* popcount(a ^ b) of two 16-bit values
countBitDifferences(a, b) == PopCount16(Xor16(a, b))

\* (buf << 1) | bit on the 64-bit buffer
Shl64(buf, bit) ==
    << (buf[1] * 2 + buf[2] \div 32768) % 65536,
       (buf[2] * 2 + buf[3] \div 32768) % 65536,
       (buf[3] * 2 + buf[4] \div 32768) % 65536,
       (buf[4] * 2 + bit) % 65536 >>

Not64(buf) == <<Not16(buf[1]), Not16(buf[2]), Not16(buf[3]), Not16(buf[4])>>

\* FlexSynchronizer::checkSyncPattern: codehigh, or 0 when the buffer is no sync word
checkSyncPattern(buffer) ==
    LET codehigh == buffer[1]
        codelow == Not16(buffer[4])
        markerDiff == countBitDifferences(buffer[2], SYNC_MARKER[1])
                      + countBitDifferences(buffer[3], SYNC_MARKER[2])
    IN  IF markerDiff >= HAMMING_THRESHOLD THEN 0
        ELSE IF countBitDifferences(codehigh, codelow) >= HAMMING_THRESHOLD THEN 0
        ELSE codehigh

\* processSymbol after the two calls of checkSyncPattern
syncResult(s, buf, pos, neg) ==
    IF pos # 0 THEN [syn |-> [sync_buffer |-> buf, last_polarity |-> FALSE], sync_code |-> pos]
    ELSE IF neg # 0 THEN [syn |-> [sync_buffer |-> buf, last_polarity |-> TRUE], sync_code |-> neg]
    ELSE [syn |-> [s EXCEPT !.sync_buffer = buf], sync_code |-> 0]

\* processSymbol once the bit is shifted in
syncDetect(s, buf) == syncResult(s, buf, checkSyncPattern(buf), checkSyncPattern(Not64(buf)))

\* FlexSynchronizer::processSymbol: [syn, sync_code]
syncProcessSymbol(s, symbol) ==
    syncDetect(s, Shl64(s.sync_buffer, IF symbol < 2 THEN 1 ELSE 0))

ModeMatches(sync_code) ==
    {i \in 1..Len(FLEX_MODES) :
        countBitDifferences(FLEX_MODES[i].sync_code, sync_code) < HAMMING_THRESHOLD}

\* FlexSynchronizer::decodeSyncMode: [ok, sync_info]
\* an unknown code leaves baud_rate and levels at the 0 of the cleared structure
decodeSyncMode(s, sync_code) ==
    LET cleared == [sync_code |-> sync_code, baud_rate |-> 0, levels |-> 0,
                    polarity |-> s.last_polarity]
        hits == ModeMatches(sync_code)
    IN  IF hits # {}
        THEN LET mode == FLEX_MODES[CHOOSE i \in hits : \A j \in hits : i <= j]
             IN [ok |-> TRUE,
                 sync_info |-> [cleared EXCEPT !.sync_code = mode.sync_code,
                                               !.baud_rate = mode.baud_rate,
                                               !.levels = mode.levels]]
        ELSE [ok |-> FALSE, sync_info |-> cleared]

syncReset == [sync_buffer |-> <<0, 0, 0, 0>>, last_polarity |-> FALSE]

----------------------------------------------------------------------------
(* FlexDataCollector *)

PHASE_WORDS == 88
IDLE_THRESHOLD == 0
BAUD_1600 == 1600
LEVELS_2FSK == 2
LEVELS_4FSK == 4

\* PhaseBuffer after clear(); buffer[i + 1] is word i
PhaseCleared == [buffer |-> [i \in 1..PHASE_WORDS |-> U32Zero], idle_count |-> 0]

isIdle(ph) == ph.idle_count > IDLE_THRESHOLD

isIdlePattern(w) == w = U32Zero \/ w = U32Ones

\* variant of calculateBufferIndex that fills the words one after another
calculateBufferIndexLinear(counter) == counter \div 32

\* ((data_bit_counter >> 5) & 0xFFF8) | (data_bit_counter & 0x0007)
calculateBufferIndex(counter) ==
    (((counter \div 32) % 65536) \div 8) * 8 + (counter % 8)

ShiftInto(ph, idx, bit) ==
    [ph EXCEPT !.buffer[idx + 1] = U32ShrIns(@, bit)]

BumpIdle(ph, idx) ==
    IF isIdlePattern(ph.buffer[idx + 1]) THEN [ph EXCEPT !.idle_count = @ + 1] ELSE ph

\* FlexDataCollector::updatePhaseBuffers
updatePhaseBuffers(c, bit_a, bit_b, idx) ==
    IF ~c.phase_toggle
    THEN [c EXCEPT !.phase_a = ShiftInto(@, idx, bit_a),
                   !.phase_b = ShiftInto(@, idx, bit_b),
                   !.phase_toggle = TRUE]
    ELSE [c EXCEPT !.phase_c = ShiftInto(@, idx, bit_a),
                   !.phase_d = ShiftInto(@, idx, bit_b),
                   !.phase_toggle = FALSE]

\* FlexDataCollector::checkForIdlePatterns
checkForIdlePatterns(c, idx) ==
    IF ~c.phase_toggle
    THEN [c EXCEPT !.phase_a = BumpIdle(@, idx), !.phase_b = BumpIdle(@, idx)]
    ELSE [c EXCEPT !.phase_c = BumpIdle(@, idx), !.phase_d = BumpIdle(@, idx)]

\* FlexDataCollector::areAllActivePhasesIdle
areAllActivePhasesIdle(c) ==
    IF c.baud_rate = BAUD_1600
    THEN IF c.fsk_levels = LEVELS_2FSK
         THEN isIdle(c.phase_a)
         ELSE isIdle(c.phase_a) /\ isIdle(c.phase_b)
    ELSE IF c.fsk_levels = LEVELS_2FSK
         THEN isIdle(c.phase_a) /\ isIdle(c.phase_c)
         ELSE isIdle(c.phase_a) /\ isIdle(c.phase_b) /\ isIdle(c.phase_c) /\ isIdle(c.phase_d)

\* symbolToBits stores the levels; at 1600 baud the toggle is forced to phase A/B
dcPrepare(c, levels) ==
    [c EXCEPT !.fsk_levels = levels,
              !.phase_toggle = IF c.baud_rate = BAUD_1600 THEN FALSE ELSE @]

dcIdleCheck(c, idx) ==
    IF c.data_bit_counter % 256 = 255 THEN checkForIdlePatterns(c, idx) ELSE c

dcAdvance(c) ==
    IF c.baud_rate = BAUD_1600 \/ ~c.phase_toggle
    THEN [c EXCEPT !.data_bit_counter = @ + 1] ELSE c

dcCollect(c, bit_a, bit_b, idx) ==
    dcAdvance(dcIdleCheck(updatePhaseBuffers(c, bit_a, bit_b, idx), idx))

dcStatus(c) == [dc |-> c, all_idle |-> areAllActivePhasesIdle(c)]

\* FlexDataCollector::processSymbol(sym, sync_info): [dc, all_idle]
dcProcessSymbol(c, sym, sync_info) ==
    dcStatus(dcCollect(dcPrepare(c, sync_info.levels),
                       sym > 1,
                       sync_info.levels = LEVELS_4FSK /\ (sym = 1 \/ sym = 2),
                       calculateBufferIndex(c.data_bit_counter)))

\* FlexDataCollector::reset
dcReset(c) ==
    [c EXCEPT !.phase_a = PhaseCleared, !.phase_b = PhaseCleared,
              !.phase_c = PhaseCleared, !.phase_d = PhaseCleared,
              !.data_bit_counter = 0, !.phase_toggle = FALSE]

dcInit ==
    [data_bit_counter |-> 0, phase_toggle |-> FALSE, baud_rate |-> BAUD_1600,
     fsk_levels |-> LEVELS_2FSK,
     phase_a |-> PhaseCleared, phase_b |-> PhaseCleared,
     phase_c |-> PhaseCleared, phase_d |-> PhaseCleared]

----------------------------------------------------------------------------
(* FlexGroupHandler *)

GROUP_BITS == 17
MAX_CAPCODES_PER_GROUP == 1000

GroupCleared == [capcodes |-> <<>>, target_frame |-> -1, target_cycle |-> -1]

hasPendingCapcodes(g) == g.capcodes # <<>> /\ g.target_frame >= 0

\* (vector_word >> 10) & 0x7F and (vector_word >> 17) & 0x7F
ViwAssignedFrame(vector_word) == (vector_word \div 1024) % 128
ViwGroupBit(vector_word) == (vector_word \div 131072) % 128

\* variant of calculateTargetCycle without the wrap from cycle 15 to cycle 0
calculateTargetCycleNoWrap(assigned_frame, current_cycle, current_frame) ==
    IF assigned_frame > current_frame THEN current_cycle ELSE current_cycle + 1

\* FlexGroupHandler::calculateTargetCycle
calculateTargetCycle(assigned_frame, current_cycle, current_frame) ==
    IF assigned_frame > current_frame THEN current_cycle
    ELSE IF current_cycle = 15 THEN 0
    ELSE current_cycle + 1

\* variant of registerCapcodeToGroup without the capacity test
registerCapcodeToGroupNoLimit(gs, capcode, vector_word, current_cycle, current_frame) ==
    LET assigned_frame == ViwAssignedFrame(vector_word)
        group_bit == ViwGroupBit(vector_word)
    IN  IF group_bit < 0 \/ group_bit >= GROUP_BITS THEN [ok |-> FALSE, groups |-> gs]
        ELSE [ok |-> TRUE,
              groups |-> [gs EXCEPT ![group_bit] =
                  [capcodes |-> Append(@.capcodes, capcode),
                   target_frame |-> assigned_frame,
                   target_cycle |-> calculateTargetCycle(assigned_frame, current_cycle,
                                                         current_frame)]]]

\* FlexGroupHandler::registerCapcodeToGroup: [ok, groups]
registerCapcodeToGroup(gs, capcode, vector_word, current_cycle, current_frame) ==
    LET assigned_frame == ViwAssignedFrame(vector_word)
        group_bit == ViwGroupBit(vector_word)
    IN  IF group_bit < 0 \/ group_bit >= GROUP_BITS THEN [ok |-> FALSE, groups |-> gs]
        ELSE IF Len(gs[group_bit].capcodes) >= MAX_CAPCODES_PER_GROUP
             THEN [ok |-> FALSE, groups |-> gs]
        ELSE [ok |-> TRUE,
              groups |-> [gs EXCEPT ![group_bit] =
                  [capcodes |-> Append(@.capcodes, capcode),
                   target_frame |-> assigned_frame,
                   target_cycle |-> calculateTargetCycle(assigned_frame, current_cycle,
                                                         current_frame)]]]

\* variant of clearGroup that empties the capcode list and keeps the target
clearGroupKeepTarget(gs, group_bit) ==
    IF group_bit >= 0 /\ group_bit < GROUP_BITS
    THEN [gs EXCEPT ![group_bit].capcodes = <<>>] ELSE gs

\* FlexGroupHandler::clearGroup
clearGroup(gs, group_bit) ==
    IF group_bit >= 0 /\ group_bit < GROUP_BITS
    THEN [gs EXCEPT ![group_bit] = GroupCleared] ELSE gs

\* variant of processGroupMessage that hands the list out without clearing the group
processGroupMessageNoClear(gs, group_bit) ==
    LET invalid == [group_bit |-> -1, capcodes |-> <<>>, is_valid |-> FALSE]
    IN  IF group_bit < 0 \/ group_bit >= GROUP_BITS THEN [info |-> invalid, groups |-> gs]
        ELSE IF ~hasPendingCapcodes(gs[group_bit]) THEN [info |-> invalid, groups |-> gs]
        ELSE [info |-> [group_bit |-> group_bit, capcodes |-> gs[group_bit].capcodes,
                        is_valid |-> TRUE],
              groups |-> gs]

\* FlexGroupHandler::processGroupMessage: [info, groups]
processGroupMessage(gs, group_bit) ==
    LET invalid == [group_bit |-> -1, capcodes |-> <<>>, is_valid |-> FALSE]
    IN  IF group_bit < 0 \/ group_bit >= GROUP_BITS THEN [info |-> invalid, groups |-> gs]
        ELSE IF ~hasPendingCapcodes(gs[group_bit]) THEN [info |-> invalid, groups |-> gs]
        ELSE [info |-> [group_bit |-> group_bit, capcodes |-> gs[group_bit].capcodes,
                        is_valid |-> TRUE],
              groups |-> clearGroup(gs, group_bit)]

\* variant of shouldExpireGroup without the wait for the rollover from cycle 15
shouldExpireGroupNoWait(gs, group_bit, current_cycle, current_frame) ==
    IF ~hasPendingCapcodes(gs[group_bit]) THEN FALSE
    ELSE IF current_cycle = gs[group_bit].target_cycle
         THEN gs[group_bit].target_frame < current_frame
    ELSE IF current_cycle = 0 THEN gs[group_bit].target_cycle = 15
    ELSE gs[group_bit].target_cycle < current_cycle

\* FlexGroupHandler::shouldExpireGroup
shouldExpireGroup(gs, group_bit, current_cycle, current_frame) ==
    LET g == gs[group_bit]
    IN  IF ~hasPendingCapcodes(g) THEN FALSE
        ELSE IF current_cycle = g.target_cycle THEN g.target_frame < current_frame
        ELSE IF current_cycle = 0 THEN g.target_cycle = 15
        ELSE IF current_cycle = 15 /\ g.target_cycle = 0 THEN FALSE
        ELSE g.target_cycle < current_cycle

\* FlexGroupHandler::checkAndCleanupMissedGroups: [missed, groups]
\* each group is judged on its own entry, so the loop is a pointwise map
checkAndCleanupMissedGroups(gs, current_cycle, current_frame) ==
    LET expired == {b \in 0..(GROUP_BITS - 1) :
                        hasPendingCapcodes(gs[b])
                        /\ shouldExpireGroup(gs, b, current_cycle, current_frame)}
    IN  [missed |-> expired,
         groups |-> [b \in 0..(GROUP_BITS - 1) |->
                        IF b \in expired THEN GroupCleared ELSE gs[b]]]

\* FlexGroupHandler::reset
groupsReset == [b \in 0..(GROUP_BITS - 1) |-> GroupCleared]

----------------------------------------------------------------------------
(* FlexDemodulator, as far as the facade drives it.  The PLL arithmetic on   *)
(* the float samples is not modelled: whether a sample completes a symbol    *)
(* period, the modal symbol of that period and a loss of lock (zero-crossing *)
(* count, timeout) are inputs of processSingleSample.                        *)

LOCK_LENGTH == 24

\* the low 2*LOCK_LENGTH bits of lock_buffer_, as bit pairs, most recent last
LockBufferZero == [i \in 1..LOCK_LENGTH |-> 0]

\* the pairs of LOCK_PATTERN 0x6666666666666666 under the lock mask
LockPattern == [i \in 1..LOCK_LENGTH |-> IF (LOCK_LENGTH - i) % 2 = 0 THEN 2 ELSE 1]

\* FlexDemodulator::checkLockPattern
checkLockPattern(dm) ==
    LET buf == Tail(dm.lock_buffer) \o <<XorBits(dm.modal_symbol, 1, 2)>>
    IN  IF buf = LockPattern \/ buf = [i \in 1..LOCK_LENGTH |-> 3 - LockPattern[i]]
        THEN [dm EXCEPT !.locked = TRUE, !.lock_buffer = LockBufferZero]
        ELSE [dm EXCEPT !.lock_buffer = buf]

----------------------------------------------------------------------------
(* FlexFrameProcessor, FlexMessageDecoder and the parsers.  Phase words are   *)
(* integers once the BCH sweep has masked them to 21 bits; an int64_t capcode *)
(* is a pair <<hi, lo>> with the value hi * 2^16 + lo.                        *)

MESSAGE_BITS_MASK == 2097151
LONG_ADDRESS_CONSTANT == 2068480
MAX_ALN_LENGTH == 512
MAX_CAPCODE == <<65568, 4094>>            \* 4297068542
GROUP_CAPCODE_MIN == <<30, 63488>>        \* 2029568
GROUP_CAPCODE_MAX == <<30, 63503>>        \* 2029583

Secure == 0
ShortInstruction == 1
Tone == 2
StandardNumeric == 3
SpecialNumeric == 4
Alphanumeric == 5
Binary == 6
NumberedNumeric == 7

I64Leq(a, b) == a[1] < b[1] \/ (a[1] = b[1] /\ a[2] <= b[2])

\* FlexGroupHandler::isGroupCapcode
isGroupCapcode(capcode) ==
    I64Leq(GROUP_CAPCODE_MIN, capcode) /\ I64Leq(capcode, GROUP_CAPCODE_MAX)

\* FlexGroupHandler::getGroupBit
getGroupBit(capcode) ==
    IF isGroupCapcode(capcode) THEN capcode[2] - GROUP_CAPCODE_MIN[2] ELSE -1

\* variant of sweepResult that gives the phase up when half of its words have failed
sweepResultStrict(fx) ==
    [success |-> Cardinality({i \in 1..PHASE_WORDS : ~fx[i].ok}) < PHASE_WORDS \div 2,
     failed |-> {i \in 1..PHASE_WORDS : ~fx[i].ok},
     phase_data |-> SubSeq([i \in 1..PHASE_WORDS |->
                               IF fx[i].ok THEN (fx[i].data[1] % 32) * 65536 + fx[i].data[2]
                               ELSE MESSAGE_BITS_MASK], 1, PHASE_WORDS)]

\* applyErrorCorrection on the outcomes fx of fixErrors for the 88 words
sweepResult(fx) ==
    [success |-> Cardinality({i \in 1..PHASE_WORDS : ~fx[i].ok}) <= PHASE_WORDS \div 2,
     failed |-> {i \in 1..PHASE_WORDS : ~fx[i].ok},
     phase_data |-> SubSeq([i \in 1..PHASE_WORDS |->
                               IF fx[i].ok THEN (fx[i].data[1] % 32) * 65536 + fx[i].data[2]
                               ELSE MESSAGE_BITS_MASK], 1, PHASE_WORDS)]

\* FlexFrameProcessor::applyErrorCorrection: [success, phase_data]
applyErrorCorrection(phase_data) ==
    sweepResult(SubSeq([i \in 1..PHASE_WORDS |-> fixErrors(phase_data[i])], 1, PHASE_WORDS))

\* FlexFrameProcessor::extractBlockInfoWord, is_valid being what BlockInfoWord::isValid says
extractBlockInfoWord(phase_data) ==
    [address_offset |-> ((phase_data[1] \div 256) % 4) + 1,
     vector_offset |-> (phase_data[1] \div 1024) % 64,
     is_valid |-> /\ phase_data[1] # 0
                  /\ phase_data[1] # MESSAGE_BITS_MASK
                  /\ (phase_data[1] \div 1024) % 64 > ((phase_data[1] \div 256) % 4) + 1]

\* the long-address test of processAddressInfoWord
isLongAddress(raw_aiw) ==
    \/ raw_aiw < 32769
    \/ (raw_aiw > 1966080 /\ raw_aiw < 2031617)
    \/ raw_aiw > 2064382

\* the capcode processAddressInfoWord computes
aiwCapcode(raw_aiw, next_word) ==
    IF isLongAddress(raw_aiw)
    THEN <<(MESSAGE_BITS_MASK - next_word) \div 2
              + (((MESSAGE_BITS_MASK - next_word) % 2) * 32768
                 + LONG_ADDRESS_CONSTANT + raw_aiw) \div 65536,
           (((MESSAGE_BITS_MASK - next_word) % 2) * 32768
              + LONG_ADDRESS_CONSTANT + raw_aiw) % 65536>>
    ELSE <<(raw_aiw - 32768) \div 65536, (raw_aiw - 32768) % 65536>>

\* FlexFrameProcessor::processAddressInfoWord, is_valid being what AddressInfoWord::isValid says
processAddressInfoWord(raw_aiw, next_word) ==
    [raw_data |-> raw_aiw,
     capcode |-> aiwCapcode(raw_aiw, next_word),
     long_address |-> isLongAddress(raw_aiw),
     is_group_message |-> /\ I64Leq(aiwCapcode(raw_aiw, next_word), MAX_CAPCODE)
                          /\ isGroupCapcode(aiwCapcode(raw_aiw, next_word)),
     group_bit |-> IF I64Leq(aiwCapcode(raw_aiw, next_word), MAX_CAPCODE)
                   THEN getGroupBit(aiwCapcode(raw_aiw, next_word)) ELSE -1,
     is_valid |-> /\ I64Leq(aiwCapcode(raw_aiw, next_word), MAX_CAPCODE)
                  /\ ~(isGroupCapcode(aiwCapcode(raw_aiw, next_word))
                       /\ isLongAddress(raw_aiw))]

\* processVectorInfoWord: the fields extracted from the raw word
viwFields(raw_viw) ==
    [raw_data |-> raw_viw,
     message_type |-> (raw_viw \div 16) % 8,
     message_word_start |-> (raw_viw \div 128) % 128,
     message_length |-> (raw_viw \div 16384) % 128,
     header_word_index |-> 0,
     fragment_number |-> 0,
     continuation_flag |-> FALSE,
     is_valid |-> FALSE,
     assigned_frame |-> 0,
     group_bit_target |-> -1]

\* processVectorInfoWord: start and length adjusted to the address type
viwAdjust(v, address_info) ==
    IF address_info.long_address
    THEN [v EXCEPT !.message_length = IF @ >= 1 THEN @ - 1 ELSE @]
    ELSE [v EXCEPT !.header_word_index = v.message_word_start,
                   !.message_word_start = @ + 1,
                   !.message_length = IF ~address_info.is_group_message /\ @ >= 1
                                      THEN @ - 1 ELSE @]

\* processVectorInfoWord: fragment fields, bounds check and the tone special case
viwFinish(v, header_word) ==
    [v EXCEPT !.fragment_number = IF header_word # 0 THEN (header_word \div 2048) % 4 ELSE @,
              !.continuation_flag = IF header_word # 0 THEN (header_word \div 1024) % 2 = 1
                                    ELSE @,
              !.message_word_start = IF v.message_type = Tone THEN 0 ELSE @,
              !.message_length = IF v.message_type = Tone THEN 0 ELSE @,
              !.is_valid = \/ v.message_type = Tone
                           \/ /\ v.message_length > 0
                              /\ v.message_word_start + v.message_length <= PHASE_WORDS]

\* FlexFrameProcessor::processVectorInfoWord
processVectorInfoWord(raw_viw, address_info, header_word) ==
    IF (raw_viw \div 16) % 8 = ShortInstruction
    THEN [viwFields(raw_viw) EXCEPT !.assigned_frame = (raw_viw \div 1024) % 128,
                                    !.group_bit_target = (raw_viw \div 131072) % 128,
                                    !.is_valid = (raw_viw \div 131072) % 128 < GROUP_BITS]
    ELSE viwFinish(viwAdjust(viwFields(raw_viw), address_info), header_word)

\* FlexFrameProcessor::handleShortInstruction: [ok, groups]
handleShortInstruction(G, address_info, vector_info, cycle_number, frame_number) ==
    registerCapcodeToGroup(G, address_info.capcode,
                           vector_info.group_bit_target * 131072
                               + vector_info.assigned_frame * 1024,
                           cycle_number, frame_number)

\* IMessageParser::calculateFragmentFlag
calculateFragmentFlag(fragment_number, continuation_flag) ==
    IF continuation_flag THEN "Fragment"
    ELSE IF fragment_number = 3 THEN "Complete" ELSE "Continuation"

\* GroupMessageData::isEmpty
groupDataIsEmpty(group_data) == group_data.group_bit = -1 \/ group_data.capcodes = <<>>

\* parseMessage of the parser registered for input.type (AlphanumericParser, NumericParser,
\* ToneParser, BinaryParser), then FlexMessageDecoder::validateMessage on its content length
parserResult(input, phase_data) ==
    [success |->
        CASE input.type \in {StandardNumeric, SpecialNumeric, NumberedNumeric} ->
                 (phase_data[input.vector_word_index + 1] \div 128) % 128 < PHASE_WORDS
          [] input.type = Tone -> input.vector_word_index < PHASE_WORDS
          [] input.type = Binary ->
                 /\ input.message_word_start + input.message_length <= PHASE_WORDS
                 /\ 9 * input.message_length - 1 <= MAX_ALN_LENGTH
          [] OTHER -> input.message_word_start + input.message_length <= PHASE_WORDS,
     fragment_flag |-> calculateFragmentFlag(input.fragment_number, input.continuation_flag),
     group_data |-> [group_bit |-> IF /\ input.type \in {Alphanumeric, Secure}
                                      /\ input.is_group_message /\ input.group_bit >= 0
                                   THEN input.group_bit ELSE -1,
                     capcodes |-> <<>>]]

\* FlexMessageDecoder::processGroupMessage on a successful result r: [result, groups]
decoderGroupMessage(G, r, info) ==
    IF info.info.is_valid
    THEN [result |-> [r EXCEPT !.group_data.capcodes = info.info.capcodes],
          groups |-> info.groups]
    ELSE [result |-> r, groups |-> info.groups]

\* FlexMessageDecoder::outputFormattedMessage: the arguments of outputMessage
outputFormattedMessage(result, input) ==
    [capcode |-> input.capcode, type |-> input.type, long_address |-> input.long_address,
     is_group_message |-> input.is_group_message,
     fragment_number |-> input.fragment_number,
     continuation_flag |-> input.continuation_flag,
     fragment_flag |-> result.fragment_flag,
     baud_rate |-> input.baud_rate, levels |-> input.levels,
     cycle_number |-> input.cycle_number, frame_number |-> input.frame_number,
     phase_id |-> input.phase_id,
     group_capcodes |-> IF groupDataIsEmpty(result.group_data) THEN <<>>
                        ELSE result.group_data.capcodes]

\* parseMessage once the parser and validateMessage have produced r
decoderFinish(G, r, input) ==
    IF r.success /\ ~groupDataIsEmpty(r.group_data)
    THEN decoderGroupMessage(G, r, processGroupMessage(G, r.group_data.group_bit))
    ELSE [result |-> r, groups |-> G]

\* FlexMessageDecoder::parseMessage: [result, groups]; the line it has the formatter print
\* is outputFormattedMessage(result, input)
parseMessage(G, input, phase_data) == decoderFinish(G, parserResult(input, phase_data), input)

\* FlexFrameProcessor::parseMessageContent: the MessageParseInput it prepares
parseInput(address_info, vector_info, S) ==
    [type |-> vector_info.message_type,
     long_address |-> address_info.long_address,
     capcode |-> address_info.capcode,
     message_word_start |-> vector_info.message_word_start,
     message_length |-> vector_info.message_length,
     vector_word_index |-> 0,
     fragment_number |-> vector_info.fragment_number,
     continuation_flag |-> vector_info.continuation_flag,
     is_group_message |-> address_info.is_group_message,
     group_bit |-> address_info.group_bit,
     cycle_number |-> S.cycle_number,
     frame_number |-> S.frame_number,
     baud_rate |-> 1600,
     levels |-> S.levels,
     phase_id |-> "A"]

\* the ProcessedMessage processPhase pushes for the AIW at index S.i
processedMessage(S, address_info, vector_info, result) ==
    [phase_name |-> S.phase_name, aiw_index |-> S.i,
     capcode |-> address_info.capcode, long_address |-> address_info.long_address,
     message_type |-> vector_info.message_type,
     message_word_start |-> vector_info.message_word_start,
     message_length |-> vector_info.message_length,
     success |-> result.success,
     group_capcodes |-> result.group_data.capcodes]

\* processPhase, loop body: continue
slotSkip(S) == [S EXCEPT !.i = @ + 1]

\* variant of slotShort that moves the current cycle on when the assigned frame has
\* passed, as the post-increment of the original decode_phase does
slotShortBumpCycle(S, address_info, vector_info, r) ==
    [S EXCEPT !.i = @ + 1,
              !.groups = r.groups,
              !.cycle_number = IF vector_info.assigned_frame <= S.frame_number /\ @ # 15
                               THEN @ + 1 ELSE @,
              !.messages = IF r.ok
                           THEN Append(@, processedMessage(S, address_info, vector_info,
                                   [success |-> TRUE,
                                    group_data |-> [group_bit |-> -1, capcodes |-> <<>>]]))
                           ELSE @]

\* processPhase, loop body from line 143 on, for a Short Instruction; r is what
\* handleShortInstruction returned
slotShort(S, address_info, vector_info, r) ==
    [S EXCEPT !.i = @ + 1,
              !.groups = r.groups,
              !.messages = IF r.ok
                           THEN Append(@, processedMessage(S, address_info, vector_info,
                                   [success |-> TRUE,
                                    group_data |-> [group_bit |-> -1, capcodes |-> <<>>]]))
                           ELSE @]

\* variant of slotMessage that puts the message in front of those emitted before it
slotMessageFirst(S, address_info, vector_info, r) ==
    [S EXCEPT !.i = @ + (IF address_info.long_address THEN 2 ELSE 1),
              !.groups = r.groups,
              !.messages = <<processedMessage(S, address_info, vector_info, r.result)>> \o @,
              !.lines = <<[line |-> outputFormattedMessage(r.result,
                                       parseInput(address_info, vector_info, S)),
                           phase_name |-> S.phase_name, aiw_index |-> S.i]>> \o @]

\* processPhase, loop body from line 163 on; r is what parseMessage returned
slotMessage(S, address_info, vector_info, r) ==
    [S EXCEPT !.i = @ + (IF address_info.long_address THEN 2 ELSE 1),
              !.groups = r.groups,
              !.messages = Append(@, processedMessage(S, address_info, vector_info, r.result)),
              !.lines = Append(@, [line |-> outputFormattedMessage(r.result,
                                               parseInput(address_info, vector_info, S)),
                                   phase_name |-> S.phase_name, aiw_index |-> S.i])]

\* processPhase, loop body from line 138 on
slotVector(S, address_info, vector_info) ==
    IF ~vector_info.is_valid THEN slotSkip(S)
    ELSE IF vector_info.message_type = ShortInstruction
    THEN slotShort(S, address_info, vector_info,
                   handleShortInstruction(S.groups, address_info, vector_info,
                                          S.cycle_number, S.frame_number))
    ELSE slotMessage(S, address_info, vector_info,
                     parseMessage(S.groups, parseInput(address_info, vector_info, S),
                                  S.phase_data))

\* processPhase, loop body from line 113 on; the header word is read for long addresses only
slotAddress(S, address_info) ==
    IF ~address_info.is_valid \/ S.vector_offset + S.i - S.address_offset >= PHASE_WORDS
    THEN slotSkip(S)
    ELSE slotVector(S, address_info,
             processVectorInfoWord(
                 S.phase_data[S.vector_offset + S.i - S.address_offset + 1],
                 address_info,
                 IF /\ address_info.long_address
                    /\ S.vector_offset + S.i - S.address_offset + 1 < PHASE_WORDS
                 THEN S.phase_data[S.vector_offset + S.i - S.address_offset + 2]
                 ELSE 0))

\* processPhase, one pass of the loop over the address words
processSlot(S) ==
    IF S.phase_data[S.i + 1] = 0 \/ S.phase_data[S.i + 1] = MESSAGE_BITS_MASK
    THEN slotSkip(S)
    ELSE slotAddress(S, processAddressInfoWord(S.phase_data[S.i + 1],
                            IF S.i + 1 < PHASE_WORDS THEN S.phase_data[S.i + 2] ELSE 0))

RECURSIVE processSlots(_)
\* processPhase: the loop for (i = address_offset; i < vector_offset; i++)
processSlots(S) ==
    IF S.i >= S.vector_offset THEN S
    ELSE CHOOSE r \in {processSlots(t) : t \in {processSlot(S)}} : TRUE

\* processPhase once the sweep result ec and the block information word biw are known
phaseParsed(F, phase_name, ec, biw) ==
    IF ~ec.success \/ ~biw.is_valid THEN F
    ELSE processSlots([F EXCEPT !.phase_name = phase_name,
                                !.phase_data = ec.phase_data,
                                !.address_offset = biw.address_offset,
                                !.vector_offset = biw.vector_offset,
                                !.i = biw.address_offset])

\* processPhase once applyErrorCorrection has returned ec
phaseSwept(F, phase_name, ec) ==
    phaseParsed([F EXCEPT !.swept = Append(@, [phase_name |-> phase_name,
                                               success |-> ec.success,
                                               failed |-> ec.failed,
                                               phase_data |-> ec.phase_data])],
                phase_name, ec, extractBlockInfoWord(ec.phase_data))

\* FlexFrameProcessor::processPhase; F accumulates the frame's messages, the lines
\* printed and the registry
processPhase(F, phase_buffer, phase_name) ==
    phaseSwept(F, phase_name, applyErrorCorrection(phase_buffer.buffer))

\* FlexFrameProcessor::getActivePhasesForMode
getActivePhasesForMode(baud_rate, fsk_levels) ==
    IF baud_rate = 1600
    THEN IF fsk_levels = 2 THEN <<"A">> ELSE <<"A", "B">>
    ELSE IF fsk_levels = 2 THEN <<"A", "C">> ELSE <<"A", "B", "C", "D">>

phaseBuffer(collector, phase_name) ==
    CASE phase_name = "A" -> collector.phase_a
      [] phase_name = "B" -> collector.phase_b
      [] phase_name = "C" -> collector.phase_c
      [] phase_name = "D" -> collector.phase_d

RECURSIVE processPhases(_, _, _)
\* processFrame: the loop over the active phases
processPhases(F, collector, phases) ==
    IF phases = <<>> THEN F
    ELSE CHOOSE r \in {processPhases(t, collector, Tail(phases)) :
                          t \in {processPhase(F, phaseBuffer(collector, Head(phases)),
                                              Head(phases))}} : TRUE

\* FlexFrameProcessor::processFrame; levels is sync_info_.levels as updateSyncInfo left it
processFrame(collector, G, baud_rate, fsk_levels, cycle_number, frame_number, levels) ==
    processPhases([groups |-> G, messages |-> <<>>, lines |-> <<>>, swept |-> <<>>,
                   cycle_number |-> cycle_number, frame_number |-> frame_number,
                   levels |-> levels,
                   phase_name |-> "A", phase_data |-> <<>>, address_offset |-> 0,
                   vector_offset |-> 0, i |-> 0],
                  collector, getActivePhasesForMode(baud_rate, fsk_levels))

----------------------------------------------------------------------------
(* The content the parsers build.  A string is the sequence of its character  *)
(* codes.                                                                     *)

\* IMessageParser::addCharacterSafe: the buffer after the call
addCharacterSafe(ch, buffer, max_size) ==
    IF Len(buffer) >= max_size THEN buffer
    ELSE IF ch = 9 /\ Len(buffer) < max_size - 1 THEN buffer \o <<92, 116>>
    ELSE IF ch = 10 /\ Len(buffer) < max_size - 1 THEN buffer \o <<92, 110>>
    ELSE IF ch = 13 /\ Len(buffer) < max_size - 1 THEN buffer \o <<92, 114>>
    ELSE IF ch = 37 /\ Len(buffer) < max_size - 1 THEN buffer \o <<37, 37>>
    ELSE IF ch >= 32 /\ ch <= 126 THEN Append(buffer, ch)
    ELSE buffer

\* AlphanumericParser::parseMessage, loop body: the three characters of a data word
alnWord(content, data_word, skip_first) ==
    addCharacterSafe((data_word \div 16384) % 128,
        addCharacterSafe((data_word \div 128) % 128,
            IF skip_first THEN content
            ELSE addCharacterSafe(data_word % 128, content, MAX_ALN_LENGTH),
            MAX_ALN_LENGTH),
        MAX_ALN_LENGTH)

\* AlphanumericParser::parseMessage, one pass of the loop: the pass is not reached
\* once the content has grown to MAX_MESSAGE_LENGTH - 10 (the break at its end)
alnPass(input, phase_data, i, content) ==
    IF Len(content) >= MAX_ALN_LENGTH - 10 THEN content
    ELSE alnWord(content, phase_data[input.message_word_start + i + 1],
                 i = 0 /\ input.fragment_number = 3)

RECURSIVE alnContent(_, _, _, _, _)
\* AlphanumericParser::parseMessage: the passes lo .. hi - 1 of the loop over the
\* message words, split in halves
alnContent(input, phase_data, lo, hi, content) ==
    IF hi <= lo THEN content
    ELSE IF hi = lo + 1 THEN alnPass(input, phase_data, lo, content)
    ELSE CHOOSE r \in {alnContent(input, phase_data, (lo + hi) \div 2, hi, c) :
                          c \in {alnContent(input, phase_data, lo, (lo + hi) \div 2,
                                            content)}} : TRUE

\* AlphanumericParser::parseMessage: [success, fragment_flag, content]
alnParseMessage(input, phase_data) ==
    IF \/ input.type \notin {Alphanumeric, Secure}
       \/ input.message_word_start + input.message_length > PHASE_WORDS
    THEN [success |-> FALSE, fragment_flag |-> "Unknown", content |-> <<>>]
    ELSE [success |-> TRUE,
          fragment_flag |-> calculateFragmentFlag(input.fragment_number,
                                                  input.continuation_flag),
          content |-> alnContent(input, phase_data, 0, input.message_length, <<>>)]

BCD_FILL_CHAR == 12

\* FLEX_BCD, the characters "0123456789 U -][" and NUL
FLEX_BCD == <<48, 49, 50, 51, 52, 53, 54, 55, 56, 57, 32, 85, 32, 45, 93, 91, 0>>

\* (word >> bit_pos) & 0x0F
bcdDigit(word, bit_pos) == (word \div (2 ^ bit_pos)) % 16

\* NumericParser::parseMessage, w1: the start field of the word at vector_word_index
numericStart(input, phase_data) == (phase_data[input.vector_word_index + 1] \div 128) % 128

\* NumericParser::parseMessage, the first data word
numericDataWord(input, phase_data) ==
    IF ~input.long_address THEN phase_data[numericStart(input, phase_data) + 1]
    ELSE phase_data[input.vector_word_index + 2]

\* NumericParser::parseMessage, the loop over the words from start_word to w2, which
\* runs once: the 21 bits of data_word after the 2 or 10 header bits, four at a time
numericContent(data_word, type) ==
    [k \in 1..Len(SelectSeq(IF type = NumberedNumeric THEN <<10, 14>> ELSE <<2, 6, 10, 14>>,
                            LAMBDA p : bcdDigit(data_word, p) # BCD_FILL_CHAR)) |->
        FLEX_BCD[bcdDigit(data_word,
                          SelectSeq(IF type = NumberedNumeric THEN <<10, 14>>
                                    ELSE <<2, 6, 10, 14>>,
                                    LAMBDA p : bcdDigit(data_word, p) # BCD_FILL_CHAR)[k]) + 1]]

\* NumericParser::parseMessage: [success, fragment_flag, content]
numericParseMessage(input, phase_data) ==
    IF numericStart(input, phase_data) >= PHASE_WORDS
    THEN [success |-> FALSE,
          fragment_flag |-> calculateFragmentFlag(input.fragment_number,
                                                  input.continuation_flag),
          content |-> <<>>]
    ELSE [success |-> TRUE,
          fragment_flag |-> calculateFragmentFlag(input.fragment_number,
                                                  input.continuation_flag),
          content |-> numericContent(numericDataWord(input, phase_data), input.type)]

\* ToneParser::extractShortNumeric
extractShortNumeric(vector_word, long_address, input, phase_data) ==
    [k \in 1..3 |-> FLEX_BCD[bcdDigit(vector_word, 5 + 4 * k) + 1]]
        \o (IF long_address /\ input.vector_word_index + 1 < PHASE_WORDS
            THEN [k \in 1..5 |->
                     FLEX_BCD[bcdDigit(phase_data[input.vector_word_index + 2],
                                       4 * (k - 1)) + 1]]
            ELSE <<>>)

\* ToneParser::parseMessage: [success, fragment_flag, content]
toneParseMessage(input, phase_data) ==
    IF input.vector_word_index >= PHASE_WORDS
    THEN [success |-> FALSE, fragment_flag |-> "Unknown", content |-> <<>>]
    ELSE [success |-> TRUE,
          fragment_flag |-> calculateFragmentFlag(input.fragment_number,
                                                  input.continuation_flag),
          content |-> IF (phase_data[input.vector_word_index + 1] \div 128) % 4 = 0
                      THEN extractShortNumeric(phase_data[input.vector_word_index + 1],
                                               input.long_address, input, phase_data)
                      ELSE <<>>]

----------------------------------------------------------------------------
(* FlexDecoder *)

FIW_DOTTING_BITS == 16
FIW_TOTAL_BITS == 48
SYNC2_DURATION_MS == 25
DATA_DURATION_MS == 1760

SyncInfoCleared == [sync_code |-> 0, baud_rate |-> 0, levels |-> 0, polarity |-> FALSE]

\* FlexStateMachine::changeState (the onEnter/onExit hooks only touch the
\* state machine's private counters, which the facade never reads)
changeState(m, new_state) == [m EXCEPT !.current_state = new_state]

\* handleSync1State after processSymbol returned r and, for a non-zero code,
\* decodeSyncMode returned m
sync1Apply(D, r, m) ==
    [D EXCEPT !.syn = r.syn,
              !.sm = [(IF r.sync_code # 0
                       THEN IF m.ok
                            THEN changeState([D.sm EXCEPT !.sync_info = m.sync_info], "FIW")
                            ELSE [D.sm EXCEPT !.sync_info = m.sync_info]
                       ELSE changeState(D.sm, "Sync1"))
                      EXCEPT !.fiw_count = 0, !.fiw_raw_data = U32Zero],
              !.o.sync_code = r.sync_code]

sync1Decode(D, r) == sync1Apply(D, r, decodeSyncMode(r.syn, r.sync_code))

\* FlexDecoder::handleSync1State
handleSync1State(D, symbol) == sync1Decode(D, syncProcessSymbol(D.syn, symbol))

\* the nibble sum handleFIWState forms over the corrected word
fiwChecksum(w) ==
    U32Field(w, 0, 4) + U32Field(w, 4, 4) + U32Field(w, 8, 4)
    + U32Field(w, 12, 4) + U32Field(w, 16, 4) + U32Field(w, 20, 1)

\* handleFIWState: the symbol is counted and, past the dotting, shifted into fiw_raw_data_
fiwAccumulate(m, sym_rectified) ==
    [m EXCEPT !.fiw_count = @ + 1,
              !.fiw_raw_data = IF m.fiw_count + 1 >= FIW_DOTTING_BITS
                               THEN U32ShrIns(@, sym_rectified > 1) ELSE @]

\* variant of fiwVerdict that accepts every corrected word, whatever its nibble sum
fiwVerdictNoChecksum(D, m1, fx) ==
    IF fx.ok
    THEN [D EXCEPT !.sm = [changeState(m1, "Sync2") EXCEPT !.sync2_count = 0,
                                                           !.fp_sync_info = m1.sync_info],
                   !.groups = checkAndCleanupMissedGroups(D.groups, U32Field(fx.data, 4, 4),
                                                          U32Field(fx.data, 8, 7)).groups,
                   !.demod.current_baud = m1.sync_info.baud_rate]
    ELSE [D EXCEPT !.sm = changeState(m1, "Sync1")]

\* handleFIWState on the last FIW symbol, fx being the result of fixErrors
fiwVerdict(D, m1, fx) ==
    IF fx.ok /\ fiwChecksum(fx.data) % 16 = 15
    THEN [D EXCEPT !.sm = [changeState(m1, "Sync2") EXCEPT !.sync2_count = 0,
                                                           !.fp_sync_info = m1.sync_info],
                   !.groups = checkAndCleanupMissedGroups(D.groups, U32Field(fx.data, 4, 4),
                                                          U32Field(fx.data, 8, 7)).groups,
                   !.demod.current_baud = m1.sync_info.baud_rate]
    ELSE [D EXCEPT !.sm = changeState(m1, "Sync1")]

fiwDecide(D, m1) ==
    IF m1.fiw_count # FIW_TOTAL_BITS THEN [D EXCEPT !.sm = m1]
    ELSE fiwVerdict(D, m1, fixErrors(m1.fiw_raw_data))

\* FlexDecoder::handleFIWState
handleFIWState(D, symbol, sym_rectified) == fiwDecide(D, fiwAccumulate(D.sm, sym_rectified))

\* variant of handleSync2State that falls back to Sync1 when the count is reached
handleSync2StateToSync1(D, symbol) ==
    IF D.sm.sync2_count + 1 = (D.demod.current_baud * SYNC2_DURATION_MS) \div 1000
    THEN [D EXCEPT !.sm = [changeState(D.sm, "Sync1") EXCEPT !.sync2_count = @ + 1]]
    ELSE [D EXCEPT !.sm.sync2_count = @ + 1]

\* FlexDecoder::handleSync2State
handleSync2State(D, symbol) ==
    IF D.sm.sync2_count + 1 = (D.demod.current_baud * SYNC2_DURATION_MS) \div 1000
    THEN [D EXCEPT !.sm = [changeState(D.sm, "Data") EXCEPT !.sync2_count = @ + 1,
                                                              !.data_count = 0],
                   !.dc = dcReset(D.dc)]
    ELSE [D EXCEPT !.sm.sync2_count = @ + 1]

\* FlexDecoder::processCompletedFrame: the call it makes to
\* FlexFrameProcessor::processFrame, with the arguments it computes
\* processCompletedFrame once processFrame has returned F
frameProcessed(D, F) ==
    [D EXCEPT !.groups = F.groups,
              !.frames = Append(@,
                  [baud_rate |-> D.demod.current_baud,
                   fsk_levels |-> D.dc.fsk_levels,
                   cycle_no |-> F.cycle_number,
                   frame_no |-> F.frame_number,
                   swept |-> F.swept,
                   messages |-> F.messages,
                   lines |-> F.lines])]

processCompletedFrame(D) ==
    frameProcessed(D, processFrame(D.dc, D.groups, D.demod.current_baud, D.dc.fsk_levels,
                                   U32Field(D.sm.fiw_raw_data, 4, 4),
                                   U32Field(D.sm.fiw_raw_data, 8, 7),
                                   D.sm.fp_sync_info.levels))

\* handleDataState after processCompletedFrame
dataLeave(D) ==
    [D EXCEPT !.sm = [changeState(D.sm, "Sync1") EXCEPT !.data_count = 0],
              !.demod.current_baud = 1600]

\* variant of dataEnd that takes the length of the period from the detected baud rate
dataEndDetectedBaud(D, all_idle) ==
    IF D.sm.data_count = (D.sm.sync_info.baud_rate * DATA_DURATION_MS) \div 1000 \/ all_idle
    THEN dataLeave(processCompletedFrame(D))
    ELSE D

\* variant of dataEnd that ends the period one symbol after the count is reached
dataEndLate(D, all_idle) ==
    IF D.sm.data_count = (D.demod.current_baud * DATA_DURATION_MS) \div 1000 + 1 \/ all_idle
    THEN dataLeave(processCompletedFrame(D))
    ELSE D

\* handleDataState once the symbol is collected and counted
dataEnd(D, all_idle) ==
    IF D.sm.data_count = (D.demod.current_baud * DATA_DURATION_MS) \div 1000 \/ all_idle
    THEN dataLeave(processCompletedFrame(D))
    ELSE D

dataCollected(D, symbol, r) ==
    dataEnd([D EXCEPT !.dc = r.dc, !.sm.data_count = @ + 1, !.o.all_idle = r.all_idle,
                      !.o.fed = symbol],
            r.all_idle)

\* FlexDecoder::handleDataState: the collector is handed the symbol as received
handleDataState(D, symbol) ==
    dataCollected(D, symbol, dcProcessSymbol(D.dc, symbol, D.sm.sync_info))

\* processSymbol: the switch on the current state
dispatchState(D, symbol, sym_rectified) ==
    CASE D.sm.current_state = "Sync1" -> handleSync1State(D, symbol)
      [] D.sm.current_state = "FIW" -> handleFIWState(D, symbol, sym_rectified)
      [] D.sm.current_state = "Sync2" -> handleSync2State(D, symbol)
      [] D.sm.current_state = "Data" -> handleDataState(D, symbol)

\* FlexDecoder::processSymbol
processSymbol(D, symbol) ==
    dispatchState([D EXCEPT !.o.dispatched = TRUE, !.o.handler = D.sm.current_state,
                            !.o.sym_rectified = IF D.syn.last_polarity THEN 3 - symbol
                                                ELSE symbol],
                  symbol,
                  IF D.syn.last_polarity THEN 3 - symbol ELSE symbol)

ObsNone ==
    [kind |-> "none", state |-> "Sync1", baud |-> 1600, sym_done |-> FALSE, symbol |-> 0,
     logical |-> 0, dispatched |-> FALSE, handler |-> "Sync1", sym_rectified |-> 0,
     sync_code |-> 0, all_idle |-> FALSE, fed |-> -1]

\* FlexDemodulator::setBaudRate
setBaudRate(D, baud) == [D EXCEPT !.demod.current_baud = baud]

\* the state and the baud rate the sample is processed with, and its inputs
observe(D, in) ==
    [D EXCEPT !.o = [ObsNone EXCEPT !.kind = "sample",
                                    !.state = D.sm.current_state,
                                    !.baud = D.demod.current_baud,
                                    !.sym_done = in.sym_done,
                                    !.symbol = in.symbol,
                                    !.logical = in.logical]]

\* variant of buildSymbol that leaves the state machine alone while unlocked
buildSymbolKeepState(D, in) ==
    [D EXCEPT !.demod.current_baud = IF D.demod.locked THEN @ ELSE 1600,
              !.demod.locked = @ /\ ~in.zc_drop]

\* FlexDemodulator::buildSymbol: unlocked, it holds the state machine in Sync1 at
\* 1600 baud; in.zc_drop: the zero-crossing counter drops the lock
buildSymbol(D, in) ==
    [D EXCEPT !.sm = IF D.demod.locked THEN @ ELSE changeState(@, "Sync1"),
              !.demod.current_baud = IF D.demod.locked THEN @ ELSE 1600,
              !.demod.locked = @ /\ ~in.zc_drop]

\* FlexDemodulator::finalizeSymbol: the modal symbol of the completed period
finalizeSymbol(D, in) == [D EXCEPT !.demod.modal_symbol = in.symbol]

\* processSingleSample: processSymbol when locked, checkLockPattern otherwise
lockedOrSearching(D) ==
    IF D.demod.locked
    THEN processSymbol(D, D.demod.modal_symbol)
    ELSE [D EXCEPT !.demod = checkLockPattern(@)]

\* FlexDemodulator::timeout; in.to_drop: the timeout counter drops the lock
timeout(D, in) == IF in.to_drop THEN [D EXCEPT !.demod.locked = FALSE] ELSE D

\* processSingleSample after buildSymbol; in.sym_done: buildSymbol returned true
symbolBuilt(D, in) ==
    IF in.sym_done THEN timeout(lockedOrSearching(finalizeSymbol(D, in)), in) ELSE D

\* FlexDecoder::processSingleSample
processSingleSample(D, in) ==
    symbolBuilt(buildSymbol(observe(setBaudRate(D, 1600), in), in), in)

\* FlexDecoder::reset (resetCounters clears only the demodulator's sample and
\* symbol counters)
decoderReset(D) ==
    [D EXCEPT !.sm = [changeState(D.sm, "Sync1") EXCEPT !.fiw_count = 0,
                                                          !.fiw_raw_data = U32Zero,
                                                          !.sync2_count = 0,
                                                          !.data_count = 0],
              !.syn = syncReset,
              !.dc = dcReset(D.dc),
              !.groups = groupsReset,
              !.o = [ObsNone EXCEPT !.kind = "reset", !.state = D.sm.current_state,
                                    !.baud = D.demod.current_baud]]

\* state after FlexDecoder::FlexDecoder
smInit ==
    [current_state |-> "Sync1", fiw_count |-> 0, fiw_raw_data |-> U32Zero,
     sync2_count |-> 0, data_count |-> 0, sync_info |-> SyncInfoCleared,
     fp_sync_info |-> SyncInfoCleared]

demodInit ==
    [locked |-> FALSE, current_baud |-> 1600, lock_buffer |-> LockBufferZero,
     modal_symbol |-> 0]

----------------------------------------------------------------------------
(* The received transmissions.  A scenario fixes the sync code, the polarity, *)
(* the frame information word, the data symbols and at most one event (loss   *)
(* of lock or a reset() call) at a position of the symbol script.  Symbols    *)
(* are written in normal polarity; an inverted transmission sends 3 - symbol. *)

\* the codeword that carries the 21 data bits d, redundancy in bits 30..21
TxWord(d) ==
    <<BitsVal(encodeFrom([i \in 1..BCH_K |-> BitOf(d, BCH_K - i)], 0), BCH_N - BCH_K) * 32
          + d \div 65536,
      d % 65536>>

TxIdle == TxWord(MESSAGE_BITS_MASK)

\* words as the transmitter assembles them
Biw(address_offset, vector_offset) == (address_offset - 1) * 256 + vector_offset * 1024
ShortAiw(capcode) == capcode + 32768
Vec(type, message_word_start, message_length) ==
    type * 16 + message_word_start * 128 + message_length * 16384
HeaderWord(fragment_number) == fragment_number * 2048
TextWord == 65 + 66 * 128 + 67 * 16384

\* a phase as sent and as the channel damaged it: its first words (idle words follow),
\* the number of words at its end that arrive with three bits flipped, and the indices
\* of the words that arrive with one bit flipped
Phase(words, bad, hit) == [words |-> words, bad |-> bad, hit |-> hit]

Unused == Phase(<<>>, -1, {})

Sent(p, i) == IF i <= Len(p.words) THEN TxWord(p.words[i]) ELSE TxIdle

\* five short addresses; their vectors, after the adjustment for short addresses:
\* words 81..99, words 6..7 (inside the vector area), words 12..13, no word, word 88
PBounds ==
    Phase(<<Biw(1, 6), ShortAiw(600), ShortAiw(601), ShortAiw(602), ShortAiw(603),
            ShortAiw(604),
            Vec(Alphanumeric, 80, 20), Vec(Alphanumeric, 5, 3), Vec(Alphanumeric, 11, 3),
            Vec(Alphanumeric, 14, 1), Vec(Alphanumeric, 87, 2),
            HeaderWord(3), TextWord, TextWord>>, 0, {})

ShortData == 40          \* data symbols sent by the scenarios that stop early
TailSyms == 2            \* symbols sent after a full-length data period
FullData == (1600 * DATA_DURATION_MS) \div 1000 + TailSyms

TxFiw ==
    [good    |-> <<22624, 1335>>,    \* cycle 3, frame 5, valid codeword, nibble sum 0xF
     badsum  |-> <<20096, 1334>>,    \* valid codeword, nibble sum 0xE
     err1    |-> <<22624, 1847>>,    \* good with bit 9 flipped
     err2    |-> <<23136, 1303>>,    \* good with bits 5 and 25 flipped
     parity  |-> <<55392, 1335>>,    \* good with bit 31 set
     garbage |-> <<22624, 1328>>,    \* good with bits 0, 1, 2 flipped: uncorrectable
     wrong   |-> <<22624, 1340>>]    \* good with bits 0, 1, 3 flipped: corrected to another codeword

\* data symbols of a transmission that is cut short and followed by a whole short one
AgainData == ShortData + (LOCK_LENGTH + 64 + FIW_TOTAL_BITS + 40) + ShortData

\* the words of the phase that the scenario with a message frame transmits
SentPhase == SubSeq([i \in 1..PHASE_WORDS |-> Sent(PBounds, i)], 1, PHASE_WORDS)

\* data symbol n (from 0) of that frame at 1600 symbols per second, two levels:
\* the words are sent interleaved in blocks of eight, lowest bit first
FrameSym(n) ==
    IF n >= PHASE_WORDS * 32 THEN 0
    ELSE IF U32Bit(SentPhase[(n \div 256) * 8 + (n % 8) + 1], (n % 256) \div 8) = 1 THEN 3
    ELSE 0

Scn(code, inv, fiw, n2, data, ndata, ev, at) ==
    [code |-> code, inv |-> inv, fiw |-> fiw, n2 |-> n2, data |-> data, ndata |-> ndata,
     ev |-> ev, at |-> at]

Scenarios == <<
    Scn(34572, FALSE, "good",    40, "mix",  FullData,  "none", 0),      \* 0x870C 1600/2
    Scn(31512, FALSE, "good",    80, "mix",  FullData,  "none", 0),      \* 0x7B18 3200/2
    Scn(45160, FALSE, "parity",  40, "zero", 300,       "none", 0),      \* 0xB068 1600/4
    Scn(34572, TRUE,  "good",    40, "mix",  ShortData, "none", 0),
    Scn(56992, TRUE,  "err2",    80, "mix",  ShortData, "none", 0),      \* 0xDEA0 3200/4
    Scn(19580, FALSE, "err1",    80, "zero", ShortData, "none", 0),      \* 0x4C7C 3200/4
    Scn(34573, FALSE, "good",    40, "zero", ShortData, "none", 0),      \* 0x870D: one bit off 0x870C
    Scn(4660,  FALSE, "good",    40, "mix",  ShortData, "none", 0),      \* 0x1234: no table entry within 3 bits
    Scn(4660,  TRUE,  "good",    40, "mix",  ShortData, "none", 0),
    Scn(34572, FALSE, "badsum",  40, "mix",  ShortData, "none", 0),
    Scn(34572, FALSE, "garbage", 40, "mix",  ShortData, "none", 0),
    Scn(31512, TRUE,  "wrong",   80, "mix",  ShortData, "none", 0),
    Scn(34572, FALSE, "good",    40, "mix",  ShortData, "zc", 110),      \* lock lost in FIW
    Scn(31512, FALSE, "good",    80, "mix",  ShortData, "timeout", 150), \* lock lost in SYNC2
    Scn(34572, TRUE,  "good",    40, "mix",  ShortData, "zc", 190),      \* lock lost in DATA
    Scn(34572, FALSE, "good",    40, "mix",  ShortData, "reset", 100),   \* reset() in FIW
    Scn(45160, TRUE,  "good",    40, "mix",  ShortData, "reset", 200),   \* reset() in DATA
    Scn(34572, FALSE, "good",    40, "mix",  ShortData, "reset", 10),    \* reset() while unlocked
    Scn(45160, FALSE, "err2",    40, "zero", FullData,  "none", 0),
    Scn(34572, FALSE, "good",    40, "frame", FullData, "none", 0),      \* phase A carries PBounds
    Scn(34572, FALSE, "good",    40, "again", AgainData, "zc", 190) >>   \* lock lost in DATA, then a second frame

SyncWord(code) == <<code, SYNC_MARKER[1], SYNC_MARKER[2], Not16(code)>>

Alternating(k) == IF k % 2 = 1 THEN 3 ELSE 0

\* symbol k (from 1) of the script of scenario s, in normal polarity
LogicalSym(s, k) ==
    LET a == LOCK_LENGTH
        b == a + 64
        c == b + FIW_TOTAL_BITS
        d == c + s.n2
    IN  IF k <= a THEN Alternating(k)
        ELSE IF k <= b
             THEN IF BitOf(SyncWord(s.code)[(k - a - 1) \div 16 + 1],
                           15 - ((k - a - 1) % 16)) = 1 THEN 0 ELSE 3
        ELSE IF k <= c
             THEN IF k - b <= FIW_DOTTING_BITS THEN Alternating(k)
                  ELSE IF U32Bit(TxFiw[s.fiw], k - b - FIW_DOTTING_BITS - 1) = 1 THEN 3 ELSE 0
        ELSE IF k <= d THEN Alternating(k)
        ELSE IF s.data = "zero" THEN 0
        ELSE IF s.data = "frame" THEN FrameSym(k - d - 1)
        ELSE ((k - d - 1) \div 8) % 4

DataStart(s) == LOCK_LENGTH + 64 + FIW_TOTAL_BITS + s.n2

ScriptLen(s) == DataStart(s) + s.ndata

\* symbol k of the script: the "again" transmission starts over after ShortData data symbols
ScriptSym(s, k) ==
    IF s.data = "again" /\ k > DataStart(s) + ShortData
    THEN LogicalSym(s, k - (DataStart(s) + ShortData))
    ELSE LogicalSym(s, k)

Scripts == [i \in 1..Len(Scenarios) |->
               [k \in 1..ScriptLen(Scenarios[i]) |-> ScriptSym(Scenarios[i], k)]]

TxScn == Scenarios[tx.scn]
TxMore == tx.pos < ScriptLen(TxScn)
TxLogical == Scripts[tx.scn][tx.pos + 1]
TxSymbol == IF TxScn.inv THEN 3 - TxLogical ELSE TxLogical
TxEvent(ev) == TxScn.ev = ev /\ TxScn.at = tx.pos + 1 /\ ~tx.ev_done

CallNone ==
    [op |-> "none", capcode |-> 0, vector_word |-> 0, cycle |-> 0, frame |-> 0,
     group_bit |-> 0, ok |-> FALSE, capcodes |-> <<>>, missed |-> {}, n |-> 0]

RegisteredNone == [b \in 0..(GROUP_BITS - 1) |-> <<>>]

Bundle == [sm |-> sm, demod |-> demod, syn |-> syn, dc |-> dc, groups |-> groups,
           frames |-> frames, o |-> obs]

Commit(D) ==
    /\ sm' = D.sm
    /\ demod' = D.demod
    /\ syn' = D.syn
    /\ dc' = D.dc
    /\ groups' = D.groups
    /\ frames' = D.frames
    /\ obs' = D.o

Constructed ==
    /\ sm = smInit
    /\ demod = demodInit
    /\ syn = syncReset
    /\ dc = dcInit
    /\ frames = <<>>
    /\ obs = ObsNone

----------------------------------------------------------------------------
(* The decoder fed sample by sample *)

InitDecoder ==
    /\ Constructed
    /\ groups = groupsReset
    /\ tx \in {[scn |-> i, pos |-> 0, ev_done |-> FALSE] : i \in 1..Len(Scenarios)}
    /\ call = CallNone
    /\ registered = RegisteredNone

\* processSingleSample on a sample that does not complete a symbol period
SampleNoSymbol ==
    /\ Commit(processSingleSample(Bundle,
                [sym_done |-> FALSE, symbol |-> 0, logical |-> 0,
                 zc_drop |-> FALSE, to_drop |-> FALSE]))
    /\ UNCHANGED <<tx, call, registered>>

\* processSingleSample on the sample that completes the next symbol of the script
SampleSymbol ==
    /\ TxMore
    /\ Commit(processSingleSample(Bundle,
                [sym_done |-> TRUE, symbol |-> TxSymbol, logical |-> TxLogical,
                 zc_drop |-> TxEvent("zc"), to_drop |-> TxEvent("timeout")]))
    /\ tx' = [tx EXCEPT !.pos = @ + 1,
                        !.ev_done = @ \/ TxEvent("zc") \/ TxEvent("timeout")]
    /\ UNCHANGED <<call, registered>>

\* FlexDecoder::reset called between two samples
Reset ==
    /\ TxEvent("reset")
    /\ Commit(decoderReset(Bundle))
    /\ tx' = [tx EXCEPT !.ev_done = TRUE]
    /\ UNCHANGED <<call, registered>>

NextDecoder == SampleNoSymbol \/ SampleSymbol \/ Reset

SpecDecoder == InitDecoder /\ [][NextDecoder]_vars

----------------------------------------------------------------------------
(* The demodulator sample by sample.  Here demod has all the counters of     *)
(* FlexDemodulator.  Of a sample the model keeps the level the slicer puts   *)
(* it at (levels 2 and 3 are the non-negative ones), whether the phase of    *)
(* the symbol clock is inside the middle 80% of the period, and whether the  *)
(* phase wraps, which ends the symbol period.  obs records what the sample   *)
(* made the demodulator do.                                                  *)

DEMOD_TIMEOUT == 100

\* state after FlexDemodulator::FlexDemodulator
demodulatorInit ==
    [locked |-> FALSE, current_baud |-> 1600, lock_buffer |-> LockBufferZero,
     modal_symbol |-> 0, symbol_counts |-> <<0, 0, 0, 0>>, timeout_counter |-> 0,
     non_consecutive_counter |-> 0, symbol_count |-> 0, sample_count |-> 0,
     last_nonneg |-> TRUE]

\* what a sample made the demodulator do: the counts it found at the end of the
\* period, how often it cleared them, the bit pairs it shifted into the lock
\* buffer, how often it incremented the timeout counter, the symbols it forwarded,
\* and which path dropped the lock
ObsDemod ==
    [counts |-> <<0, 0, 0, 0>>, cleared |-> 0, shifted |-> <<>>, incremented |-> 0,
     forwarded |-> <<>>, zc_drop |-> FALSE, to_drop |-> FALSE, was_locked |-> FALSE,
     wrap |-> FALSE] @@ ObsNone

observeDemod(D, in) ==
    [D EXCEPT !.o = [ObsDemod EXCEPT !.kind = "sample", !.state = D.sm.current_state,
                                     !.baud = D.demod.current_baud,
                                     !.sym_done = in.wrap, !.wrap = in.wrap,
                                     !.was_locked = D.demod.locked]]

\* FlexDemodulator::resetCounters
resetCounters(dm) == [dm EXCEPT !.symbol_count = 0, !.sample_count = 0]

\* buildSymbol, lines 52 to 73: the sample counter, and the hold in the initial
\* state while unlocked
sampleCounted(D) ==
    IF D.demod.locked THEN [D EXCEPT !.demod.sample_count = @ + 1]
    ELSE [D EXCEPT !.demod.sample_count = @ + 1,
                   !.demod.current_baud = 1600,
                   !.demod.timeout_counter = 0,
                   !.demod.non_consecutive_counter = 0,
                   !.sm = changeState(@, "Sync1")]

\* FlexDemodulator::countSymbolLevels, called inside the middle 80% of the period
countSymbolLevels(D, in) ==
    IF in.window THEN [D EXCEPT !.demod.symbol_counts[in.level + 1] = @ + 1] ELSE D

\* variant of crossingInside that drops the lock at the 20th crossing
crossingInsideAtTwenty(D) ==
    IF D.demod.non_consecutive_counter + 1 >= 20 /\ D.demod.locked
    THEN [D EXCEPT !.demod.non_consecutive_counter = @ + 1,
                   !.demod.locked = FALSE,
                   !.demod.timeout_counter = 0,
                   !.o.zc_drop = TRUE]
    ELSE [D EXCEPT !.demod.non_consecutive_counter = @ + 1,
                   !.demod.timeout_counter = 0]

\* processZeroCrossing on a zero crossing inside the middle 80% of the period
crossingInside(D) ==
    IF D.demod.non_consecutive_counter + 1 > 20 /\ D.demod.locked
    THEN [D EXCEPT !.demod.non_consecutive_counter = @ + 1,
                   !.demod.locked = FALSE,
                   !.demod.timeout_counter = 0,
                   !.o.zc_drop = TRUE]
    ELSE [D EXCEPT !.demod.non_consecutive_counter = @ + 1,
                   !.demod.timeout_counter = 0]

\* FlexDemodulator::processZeroCrossing; the correction of the phase is part of the
\* sample's window and wrap
processZeroCrossing(D, in) ==
    IF D.demod.last_nonneg = (in.level >= 2) THEN D
    ELSE IF in.window THEN crossingInside(D)
    ELSE [D EXCEPT !.demod.non_consecutive_counter = 0, !.demod.timeout_counter = 0]

RECURSIVE modalFrom(_, _, _, _)
\* finalizeSymbol, the loop over the four counts from level j on
modalFrom(counts, j, modal_symbol, max_count) ==
    IF j > 3 THEN modal_symbol
    ELSE IF counts[j + 1] > max_count THEN modalFrom(counts, j + 1, j, counts[j + 1])
    ELSE modalFrom(counts, j + 1, modal_symbol, max_count)

\* finalizeSymbol, lines 190 to 208: the modal symbol, the counts cleared
symbolDecided(D) ==
    [D EXCEPT !.demod.modal_symbol = modalFrom(D.demod.symbol_counts, 0, 0, 0),
              !.demod.symbol_counts = <<0, 0, 0, 0>>,
              !.demod.symbol_count = @ + 1,
              !.demod.non_consecutive_counter = 0,
              !.o.cleared = @ + 1]

\* FlexDemodulator::checkLockPattern with resetCounters on a match; dm is the
\* demodulator after the shift and the comparison
lockChecked(D, dm) ==
    [D EXCEPT !.demod = IF dm.locked THEN resetCounters(dm) ELSE dm,
              !.o.shifted = Append(@, XorBits(D.demod.modal_symbol, 1, 2))]

demodCheckLockPattern(D) == lockChecked(D, checkLockPattern(D.demod))

\* finalizeSymbol, lines 220 to 225: the timeout check
timeoutCheck(D) ==
    IF D.demod.timeout_counter + 1 > DEMOD_TIMEOUT
    THEN [D EXCEPT !.demod.timeout_counter = @ + 1,
                   !.demod.locked = FALSE,
                   !.o.incremented = @ + 1,
                   !.o.to_drop = @ \/ D.demod.locked]
    ELSE [D EXCEPT !.demod.timeout_counter = @ + 1, !.o.incremented = @ + 1]

\* FlexDemodulator::finalizeSymbol
demodFinalizeSymbol(D) ==
    timeoutCheck(IF symbolDecided(D).demod.locked THEN symbolDecided(D)
                 ELSE demodCheckLockPattern(symbolDecided(D)))

\* FlexDemodulator::timeout
demodTimeout(D) == timeoutCheck(D)

\* buildSymbol at the end of the symbol period: finalizeSymbol
periodEnd(D, in) ==
    IF in.wrap THEN demodFinalizeSymbol([D EXCEPT !.o.counts = D.demod.symbol_counts])
    ELSE D

\* FlexDemodulator::buildSymbol; it returns in.wrap
demodBuildSymbol(D, in) ==
    periodEnd([processZeroCrossing(countSymbolLevels(sampleCounted(D), in), in)
                  EXCEPT !.demod.last_nonneg = in.level >= 2],
              in)

\* processSingleSample, lines 139 to 146
forwardOrSearch(D) ==
    IF D.demod.locked
    THEN processSymbol([D EXCEPT !.o.forwarded = Append(@, D.demod.modal_symbol)],
                       D.demod.modal_symbol)
    ELSE demodCheckLockPattern(D)

\* processSingleSample once buildSymbol has returned
symbolPeriod(D, in) ==
    IF in.wrap THEN demodTimeout(forwardOrSearch(demodFinalizeSymbol(D))) ELSE D

\* FlexDecoder::processSingleSample with the demodulator's counters
demodProcessSingleSample(D, in) ==
    symbolPeriod(demodBuildSymbol(observeDemod(setBaudRate(D, 1600), in), in), in)

\* the sample streams.  A stream is a list of samples; setLocked(true) is called
\* before the sample at position lock_at (never for lock_at = -1).
\*   alternating: periods of three samples, the levels of the periods alternate
\*                between 3 and 0
\*   symbols:     the same periods with the levels 3, 0, 1, 2, 3, 3, 0, 2
\*   quiet:       periods of two samples at level 3, no zero crossing
\*   noisy:       a zero crossing inside the window at every sample of one long period
\*   noisy20:     twenty such crossings, one crossing outside the window, five more
\*                inside, then the period ends
\*   straddle:    twelve crossings inside the window, the end of the period without a
\*                crossing, thirteen more crossings inside the window
DemodStream(kind, lock_at, len) == [kind |-> kind, lock_at |-> lock_at, len |-> len]

DemodStreams == <<
    DemodStream("alternating", -1, 3 * (LOCK_LENGTH + 2)),
    DemodStream("symbols", 0, 3 * 8),
    DemodStream("quiet", 0, 2 * (DEMOD_TIMEOUT + 4)),
    DemodStream("noisy", 0, 24),
    DemodStream("noisy20", 0, 27),
    DemodStream("straddle", 0, 26),
    DemodStream("alternating", 6, 3 * 8) >>

Sample(level, window, wrap) == [level |-> level, window |-> window, wrap |-> wrap]

\* sample k (from 1) of the stream s
SampleOf(s, k) ==
    CASE s.kind = "alternating" ->
             Sample(IF ((k - 1) \div 3) % 2 = 0 THEN 3 ELSE 0, (k - 1) % 3 = 1, (k - 1) % 3 = 2)
      [] s.kind = "symbols" ->
             Sample(<<3, 0, 1, 2, 3, 3, 0, 2>>[(k - 1) \div 3 + 1], (k - 1) % 3 = 1,
                    (k - 1) % 3 = 2)
      [] s.kind = "quiet" -> Sample(3, k % 2 = 1, k % 2 = 0)
      [] s.kind = "noisy" -> Sample(IF k % 2 = 1 THEN 0 ELSE 3, TRUE, FALSE)
      [] s.kind = "noisy20" ->
             Sample(IF k % 2 = 1 THEN 0 ELSE 3, k # 21, k = 27)
      [] s.kind = "straddle" ->
             IF k <= 12 THEN Sample(IF k % 2 = 1 THEN 0 ELSE 3, TRUE, FALSE)
             ELSE IF k = 13 THEN Sample(3, FALSE, TRUE)
             ELSE Sample(IF k % 2 = 0 THEN 0 ELSE 3, TRUE, FALSE)

TxStream == DemodStreams[tx.scn]
TxSample == SampleOf(TxStream, tx.pos + 1)

\* the sample is on the other side of zero than the sample before it
TxCrossing ==
    (TxSample.level >= 2) # (IF tx.pos = 0 THEN TRUE ELSE SampleOf(TxStream, tx.pos).level >= 2)

\* the level with the largest count, the lowest of them if there are several
Argmax(counts) ==
    CHOOSE m \in 0..3 : \A j \in 0..3 :
        counts[m + 1] > counts[j + 1] \/ (counts[m + 1] = counts[j + 1] /\ m <= j)

\* the books kept on the stream while it is fed:
\*   quiet:  completed symbol periods since the last zero crossing
\*   run:    zero crossings inside the window since the last one outside it
\*   mid_at: zero crossings inside the window since the last one outside it or the
\*           last end of a period, at this sample; mid: the same after this sample
\*   inside: this sample is a zero crossing inside the window
\*   alt:    the most recent completed periods whose modal symbols alternate between
\*           0 and 3, last: the modal symbol of the last completed period
\* The counts of crossings start over while the demodulator is unlocked.
TxInit(i) ==
    [scn |-> i, pos |-> 0, lock_done |-> FALSE, quiet |-> 0, run |-> 0, mid |-> 0,
     mid_at |-> 0, inside |-> FALSE, alt |-> 0, last |-> -1]

crossingsAfter(n, locked, in, crossing) ==
    IF ~crossing THEN (IF locked THEN n ELSE 0)
    ELSE IF in.window THEN (IF locked THEN n ELSE 0) + 1
    ELSE 0

alternationAfter(t, m) ==
    IF m \notin {0, 3} THEN 0
    ELSE IF t.last = 3 - m THEN t.alt + 1
    ELSE 1

Tracked(t, in, crossing, locked, counts) ==
    [t EXCEPT !.pos = @ + 1,
              !.quiet = (IF crossing THEN 0 ELSE @) + (IF in.wrap THEN 1 ELSE 0),
              !.run = crossingsAfter(@, locked, in, crossing),
              !.mid_at = crossingsAfter(t.mid, locked, in, crossing),
              !.mid = IF in.wrap THEN 0 ELSE crossingsAfter(@, locked, in, crossing),
              !.inside = crossing /\ in.window,
              !.alt = IF in.wrap THEN alternationAfter(t, Argmax(counts)) ELSE @,
              !.last = IF in.wrap THEN Argmax(counts) ELSE @]

InitDemod ==
    /\ sm = smInit
    /\ demod = demodulatorInit
    /\ syn = syncReset
    /\ dc = dcInit
    /\ frames = <<>>
    /\ obs = ObsDemod
    /\ groups = groupsReset
    /\ tx \in {TxInit(i) : i \in 1..Len(DemodStreams)}
    /\ call = CallNone
    /\ registered = RegisteredNone

\* FlexDemodulator::setLocked(true), called between two samples
SetLocked ==
    /\ TxStream.lock_at = tx.pos
    /\ ~tx.lock_done
    /\ demod' = [demod EXCEPT !.locked = TRUE]
    /\ tx' = [tx EXCEPT !.lock_done = TRUE]
    /\ obs' = [ObsDemod EXCEPT !.kind = "setLocked"]
    /\ UNCHANGED <<sm, syn, dc, groups, frames, call, registered>>

\* processSingleSample on the next sample of the stream
DemodSample ==
    /\ tx.pos < TxStream.len
    /\ TxStream.lock_at = tx.pos => tx.lock_done
    /\ Commit(demodProcessSingleSample(Bundle, TxSample))
    /\ tx' = Tracked(tx, TxSample, TxCrossing, demod.locked, obs'.counts)
    /\ UNCHANGED <<call, registered>>

NextDemod == SetLocked \/ DemodSample

SpecDemod == InitDemod /\ [][NextDemod]_vars

----------------------------------------------------------------------------
(* The group registry driven operation by operation *)

MaxOps == 3

Capcodes == {500, 501}
GroupBitInputs == {5, 16, 17}
AssignedFrames == {0, 100}
FiwPoints == {<<2, 100>>, <<15, 0>>, <<3, 0>>, <<3, 1>>, <<0, 50>>}     \* <<current_cycle, current_frame>>

Viw(assigned_frame, group_bit) == 16 + assigned_frame * 1024 + group_bit * 131072

\* group 16 after MAX_CAPCODES_PER_GROUP - 1 registrations in cycle 2, frame 5
NearlyFull ==
    [capcodes |-> [i \in 1..(MAX_CAPCODES_PER_GROUP - 1) |-> 500 + (i % 2)],
     target_frame |-> 100,
     target_cycle |-> calculateTargetCycle(100, 2, 5)]

InitGroup ==
    /\ Constructed
    /\ tx = [scn |-> 1, pos |-> 0, ev_done |-> FALSE]
    /\ call = CallNone
    /\ \/ groups = groupsReset /\ registered = RegisteredNone
       \/ /\ groups = [groupsReset EXCEPT ![16] = NearlyFull]
          /\ registered = [RegisteredNone EXCEPT ![16] = NearlyFull.capcodes]

DecoderIdle == UNCHANGED <<sm, demod, syn, dc, frames, obs, tx>>

\* registerCapcodeToGroup(capcode, vector_word, current_cycle, current_frame)
GRegister(capcode, vector_word, cycle, frame) ==
    LET r == registerCapcodeToGroup(groups, capcode, vector_word, cycle, frame)
        b == ViwGroupBit(vector_word)
    IN  /\ call.n < MaxOps
        /\ groups' = r.groups
        /\ call' = [CallNone EXCEPT !.op = "register", !.capcode = capcode,
                                    !.vector_word = vector_word, !.cycle = cycle,
                                    !.frame = frame, !.group_bit = b, !.ok = r.ok,
                                    !.n = call.n + 1]
        /\ registered' = IF r.ok THEN [registered EXCEPT ![b] = Append(@, capcode)]
                         ELSE registered
        /\ DecoderIdle

\* processGroupMessage(group_bit)
GDeliver(group_bit) ==
    LET r == processGroupMessage(groups, group_bit)
    IN  /\ call.n < MaxOps
        /\ groups' = r.groups
        /\ call' = [CallNone EXCEPT !.op = "deliver", !.group_bit = group_bit,
                                    !.ok = r.info.is_valid, !.capcodes = r.info.capcodes,
                                    !.n = call.n + 1]
        /\ registered' = IF r.info.is_valid THEN [registered EXCEPT ![group_bit] = <<>>]
                         ELSE registered
        /\ DecoderIdle

\* checkAndCleanupMissedGroups(current_cycle, current_frame)
GCleanup(cycle, frame) ==
    LET r == checkAndCleanupMissedGroups(groups, cycle, frame)
    IN  /\ call.n < MaxOps
        /\ groups' = r.groups
        /\ call' = [CallNone EXCEPT !.op = "cleanup", !.cycle = cycle, !.frame = frame,
                                    !.missed = r.missed, !.n = call.n + 1]
        /\ registered' = [b \in 0..(GROUP_BITS - 1) |->
                             IF b \in r.missed THEN <<>> ELSE registered[b]]
        /\ DecoderIdle

\* FlexGroupHandler::reset
GReset ==
    /\ call.n < MaxOps
    /\ groups' = groupsReset
    /\ call' = [CallNone EXCEPT !.op = "reset", !.n = call.n + 1]
    /\ registered' = RegisteredNone
    /\ DecoderIdle

NextGroup ==
    \/ \E c \in Capcodes, a \in AssignedFrames, b \in GroupBitInputs, p \in FiwPoints :
            GRegister(c, Viw(a, b), p[1], p[2])
    \/ \E b \in GroupBitInputs : GDeliver(b)
    \/ \E p \in FiwPoints : GCleanup(p[1], p[2])
    \/ GReset

SpecGroup == InitGroup /\ [][NextGroup]_vars

----------------------------------------------------------------------------
(* The BCH codec driven codeword by codeword: tx is the data word sent and the *)
(* positions the channel flipped, call the outcome of decoding what arrived    *)

MaxFlips == 2

BchData == {0, 703710, 2097151}

DataBits(v) == [i \in 1..BCH_K |-> BitOf(v, i - 1)]

\* the 31 coefficients that reach the decoder
BchReceived == FlipAll(encode(DataBits(tx.data)), tx.flipped)

BchNone == [op |-> "none", retval |-> 0, received |-> <<>>, errors_fixed |-> 0]

InitBch ==
    /\ Constructed
    /\ groups = groupsReset
    /\ registered = RegisteredNone
    /\ tx \in {[data |-> v, flipped |-> {}] : v \in BchData}
    /\ call = BchNone

\* the channel flips the coefficient at position p
BchFlip(p) ==
    /\ call.op = "none"
    /\ Cardinality(tx.flipped) < MaxFlips
    /\ p \notin tx.flipped
    /\ tx' = [tx EXCEPT !.flipped = @ \cup {p}]
    /\ UNCHANGED <<sm, demod, syn, dc, groups, frames, obs, call, registered>>

\* BCHCode::decode on the received coefficients
BchCorrect ==
    /\ call.op = "none"
    /\ \E rc \in {BchReceived} : \E r \in {decode(rc)} :
          call' = [op |-> "correct", retval |-> r.retval, received |-> r.received,
                   errors_fixed |-> errorsFixed(rc, r.received)]
    /\ UNCHANGED <<sm, demod, syn, dc, groups, frames, obs, tx, registered>>

\* bursts of three flipped positions
Bursts == {{i, i + 2, i + 5} : i \in 0..3} \cup {{i, i + 1, i + 2} : i \in 0..3}

\* the channel flips the three positions of a burst
BchBurst(b) ==
    /\ call.op = "none"
    /\ tx.flipped = {}
    /\ tx' = [tx EXCEPT !.flipped = b]
    /\ UNCHANGED <<sm, demod, syn, dc, groups, frames, obs, call, registered>>

NextBch ==
    \/ \E p \in 0..(BCH_N - 1) : BchFlip(p)
    \/ \E b \in Bursts : BchBurst(b)
    \/ BchCorrect

SpecBch == InitBch /\ [][NextBch]_vars

----------------------------------------------------------------------------
(* The frame processor and the registry driven frame by frame.  For every     *)
(* frame the decoder calls updateSyncInfo and checkAndCleanupMissedGroups     *)
(* when it accepts the FIW, and processFrame when the data period ends.  Here *)
(* tx is the number of frames done, the frame whose data is being received    *)
(* and the frame received before it; frames arrive in transmission order.     *)

MaxFrames == 2

Received(p, i, w) ==
    IF i > PHASE_WORDS - p.bad THEN <<w[1], Xor16(w[2], 7)>>
    ELSE IF (i - 1) \in p.hit THEN <<Xor16(w[1], 1), w[2]>>
    ELSE w

\* the PhaseBuffer the collector holds at the end of the data period
Collected(p) ==
    IF p = Unused THEN PhaseCleared
    ELSE [buffer |-> SubSeq([i \in 1..PHASE_WORDS |-> Received(p, i, Sent(p, i))],
                            1, PHASE_WORDS),
          idle_count |-> 0]

\* capcode 500 is assigned to group bit 5 for the frame assigned_frame
PRegister(assigned_frame) ==
    Phase(<<Biw(1, 2), ShortAiw(500), Viw(assigned_frame, 5)>>, 0, {})

\* an alphanumeric message of two words to the group capcode 2029568 + 5
PDeliver ==
    Phase(<<Biw(1, 2), ShortAiw(2029573), Vec(Alphanumeric, 3, 2),
            HeaderWord(3), TextWord, TextWord>>, 0, {})

\* a long address (words 1 and 2) with a Short Instruction for group bit 6; word 2 read
\* as an address of its own is the short capcode 2007232, word 4 a tone-only vector
PLongShort ==
    Phase(<<Biw(1, 3), 1, 2040000, Viw(10, 6), Vec(Tone, 0, 0)>>, 0, {})

\* the same long address with an alphanumeric message of two words
PLongMessage ==
    Phase(<<Biw(1, 3), 1, 2040000, Vec(Alphanumeric, 5, 3), HeaderWord(3),
            TextWord, TextWord>>, 0, {})

\* two alphanumeric messages of one word each, to the capcodes c and c + 1
PTwo(c) ==
    Phase(<<Biw(1, 3), ShortAiw(c), ShortAiw(c + 1), Vec(Alphanumeric, 5, 2),
            Vec(Alphanumeric, 7, 2), HeaderWord(3), TextWord, HeaderWord(3), TextWord>>,
          0, {})

\* a registration and a message, the block information word and the address arriving
\* with one flipped bit each and the last bad words beyond correction
PDamaged(bad) ==
    Phase(<<Biw(1, 3), ShortAiw(800), ShortAiw(801), Viw(20, 7), Vec(Alphanumeric, 6, 2),
            0, HeaderWord(3), TextWord>>, bad, {0, 1, 4})

\* capcode 510 is assigned to group bit 6 for frame 5, which has passed in this cycle,
\* and an alphanumeric message of one word follows for capcode 511
PRegisterThenMessage ==
    Phase(<<Biw(1, 3), ShortAiw(510), ShortAiw(511), Viw(5, 6), Vec(Alphanumeric, 5, 2),
            HeaderWord(3), TextWord>>, 0, {})

Frame(cycle, frame, mode, a, b, c, d) ==
    [cycle_no |-> cycle, frame_no |-> frame, mode |-> mode, phases |-> <<a, b, c, d>>]

Frames == <<
    Frame(2, 100, 1, PRegister(101), Unused, Unused, Unused),
    Frame(2, 101, 1, PDeliver, Unused, Unused, Unused),
    Frame(2, 100, 1, PRegister(0), Unused, Unused, Unused),
    Frame(3, 0, 1, PDeliver, Unused, Unused, Unused),
    Frame(4, 9, 1, PLongShort, Unused, Unused, Unused),
    Frame(4, 10, 1, PLongMessage, Unused, Unused, Unused),
    Frame(5, 1, 1, PBounds, Unused, Unused, Unused),
    Frame(6, 1, 1, PDamaged(PHASE_WORDS \div 2), Unused, Unused, Unused),
    Frame(6, 2, 1, PDamaged(PHASE_WORDS \div 2 + 1), Unused, Unused, Unused),
    Frame(7, 1, 2, PTwo(700), PTwo(710), Unused, Unused),
    Frame(7, 2, 3, PTwo(720), Unused, PTwo(730), Unused),
    Frame(7, 3, 4, PTwo(740), PTwo(750), PTwo(760), PTwo(770)),
    Frame(2, 101, 1, PRegisterThenMessage, Unused, Unused, Unused) >>

\* the collector at the end of the data period of a frame
Collector(f) ==
    [dcInit EXCEPT !.baud_rate = FLEX_MODES[f.mode].baud_rate,
                   !.fsk_levels = FLEX_MODES[f.mode].levels,
                   !.phase_a = Collected(f.phases[1]),
                   !.phase_b = Collected(f.phases[2]),
                   !.phase_c = Collected(f.phases[3]),
                   !.phase_d = Collected(f.phases[4])]

Collectors == SubSeq([k \in 1..Len(Frames) |-> Collector(Frames[k])], 1, Len(Frames))

TxFrame == Frames[tx.cur]

\* frame k is transmitted later than the last frame received
TxLater(k) ==
    IF tx.last = 0 THEN TRUE
    ELSE IF Frames[tx.last].cycle_no = Frames[k].cycle_no
         THEN Frames[tx.last].frame_no < Frames[k].frame_no
    ELSE Frames[tx.last].cycle_no < Frames[k].cycle_no

InitFrame ==
    /\ Constructed
    /\ groups = groupsReset
    /\ registered = RegisteredNone
    /\ call = CallNone
    /\ tx = [n |-> 0, cur |-> 0, last |-> 0]

\* handleFIWState accepting the FIW of frame k: updateSyncInfo(sync_info_, corrected_fiw)
\* and checkAndCleanupMissedGroups(cycle_no, frame_no)
FrameFiw(k) ==
    /\ tx.cur = 0
    /\ tx.n < MaxFrames
    /\ TxLater(k)
    /\ sm' = [sm EXCEPT !.fp_sync_info = [sync_code |-> FLEX_MODES[Frames[k].mode].sync_code,
                                         baud_rate |-> FLEX_MODES[Frames[k].mode].baud_rate,
                                         levels |-> FLEX_MODES[Frames[k].mode].levels,
                                         polarity |-> FALSE]]
    /\ groups' = checkAndCleanupMissedGroups(groups, Frames[k].cycle_no,
                                             Frames[k].frame_no).groups
    /\ tx' = [tx EXCEPT !.cur = k]
    /\ UNCHANGED <<demod, syn, dc, frames, obs, call, registered>>

\* processFrame(collector, baud_rate, fsk_levels, cycle_number, frame_number) at the end
\* of the data period of the frame
FrameData ==
    /\ tx.cur # 0
    /\ \E F \in {processFrame(Collectors[tx.cur], groups,
                              FLEX_MODES[TxFrame.mode].baud_rate,
                              FLEX_MODES[TxFrame.mode].levels,
                              TxFrame.cycle_no, TxFrame.frame_no,
                              sm.fp_sync_info.levels)} :
          /\ groups' = F.groups
          /\ frames' = Append(frames,
                 [baud_rate |-> FLEX_MODES[TxFrame.mode].baud_rate,
                  fsk_levels |-> FLEX_MODES[TxFrame.mode].levels,
                  cycle_no |-> F.cycle_number,
                  frame_no |-> F.frame_number,
                  swept |-> F.swept,
                  messages |-> F.messages,
                  lines |-> F.lines])
    /\ tx' = [n |-> tx.n + 1, cur |-> 0, last |-> tx.cur]
    /\ UNCHANGED <<sm, demod, syn, dc, obs, call, registered>>

NextFrame == (\E k \in 1..Len(Frames) : FrameFiw(k)) \/ FrameData

SpecFrame == InitFrame /\ [][NextFrame]_vars

----------------------------------------------------------------------------
(* The data collector driven symbol by symbol through the DATA period of one  *)
(* frame, as handleDataState drives it.  Here tx is the mode of the frame,    *)
(* the block of words sent and the number of data symbols received so far.    *)

Patterns == 2

\* word i of phase ph (0 = A .. 3 = D) of block pat: in some blocks the last word
\* of an interleaving group is an idle word
SentWord(pat, ph, i) ==
    IF i % 8 = 7 /\ (i \div 8 + ph + pat) % 3 = 0 THEN U32Zero
    ELSE IF i % 8 = 7 /\ (i \div 8 + ph + pat) % 3 = 1 THEN U32Ones
    ELSE <<(i * 7919 + ph * 4099 + pat * 257 + 1) % 65536,
           (i * 10473 + ph * 911 + pat * 31 + 3) % 65536>>

\* the symbol that carries bit a of phase A (or C) and bit b of phase B (or D)
SentSymbol(a, b) == IF a = 1 THEN (IF b = 1 THEN 2 ELSE 3) ELSE (IF b = 1 THEN 1 ELSE 0)

\* data symbol number pos: groups of eight words are sent bit by bit, lowest bit
\* first; at 3200 baud the symbols of phases A/B and of phases C/D alternate
SentData(mode, pat, n, pair) ==
    SentSymbol(U32Bit(SentWord(pat, 2 * pair, (n \div 256) * 8 + (n % 8)), (n % 256) \div 8),
               IF mode.levels = LEVELS_4FSK
               THEN U32Bit(SentWord(pat, 2 * pair + 1, (n \div 256) * 8 + (n % 8)),
                           (n % 256) \div 8)
               ELSE 0)

TxMode == FLEX_MODES[tx.mode]
TxData ==
    IF TxMode.baud_rate = BAUD_1600
    THEN SentData(TxMode, tx.pat, tx.pos, 0)
    ELSE SentData(TxMode, tx.pat, tx.pos \div 2, tx.pos % 2)

\* the decoder when handleSync2State has entered the data period of a frame sent
\* in the given mode
InitCollector ==
    /\ tx \in {[mode |-> m, pat |-> p, pos |-> 0] : m \in 1..4, p \in 1..Patterns}
    /\ sm = [changeState(smInit, "Data")
                EXCEPT !.sync_info = [sync_code |-> TxMode.sync_code,
                                      baud_rate |-> TxMode.baud_rate,
                                      levels |-> TxMode.levels,
                                      polarity |-> FALSE],
                       !.fp_sync_info = [sync_code |-> TxMode.sync_code,
                                         baud_rate |-> TxMode.baud_rate,
                                         levels |-> TxMode.levels,
                                         polarity |-> FALSE]]
    /\ demod = [demodInit EXCEPT !.locked = TRUE]
    /\ syn = syncReset
    /\ dc = dcReset(dcInit)
    /\ groups = groupsReset
    /\ frames = <<>>
    /\ obs = ObsNone
    /\ call = CallNone
    /\ registered = RegisteredNone

\* FlexDecoder::handleDataState on the next data symbol of the frame
CollectSymbol ==
    /\ sm.current_state = "Data"
    /\ Commit(handleDataState(Bundle, TxData))
    /\ tx' = [tx EXCEPT !.pos = @ + 1]
    /\ UNCHANGED <<call, registered>>

NextCollector == CollectSymbol

SpecCollector == InitCollector /\ [][NextCollector]_vars

----------------------------------------------------------------------------
(* The parsers applied to one message: tx is either an alphanumeric message   *)
(* as the frame processor hands it over (the two data words that alternate in *)
(* it, its length, type and fragment number) or a phase that carries one tone *)
(* or numeric message; call is the result of the parser.                      *)

MaxWords == 87

\* data words of three 7-bit characters: "%%%", "ABC", tab/newline/return,
\* "A%" with a NUL, and DEL, US, "~"
CharWords ==
    {37 + 37 * 128 + 37 * 16384, TextWord, 9 + 10 * 128 + 13 * 16384,
     65 + 37 * 128, 127 + 31 * 128 + 126 * 16384}

MessageLengths == {1, 2} \cup ((MaxWords - 4)..MaxWords)

ParserInputs ==
    [kind : {"content"}, even : CharWords, odd : CharWords,
     message_length : MessageLengths,
     type : {Alphanumeric, Secure}, fragment_number : {0, 3}]

\* the phase the message lies in: it fills the last message_length words
TxPhaseData == [i \in 1..PHASE_WORDS |-> IF i % 2 = 0 THEN tx.even ELSE tx.odd]

TxParseInput ==
    [type |-> tx.type, message_word_start |-> PHASE_WORDS - tx.message_length,
     message_length |-> tx.message_length, fragment_number |-> tx.fragment_number,
     continuation_flag |-> FALSE]

\* vector words of tone, short numeric and numeric messages
ToneWord(type_bits, d1, d2, d3) ==
    Tone * 16 + type_bits * 128 + d1 * 512 + d2 * 8192 + d3 * 131072

VectorWords ==
    {ToneWord(0, 1, 2, 3), ToneWord(0, 6, 0, 0), ToneWord(1, 0, 0, 0),
     Vec(StandardNumeric, 5, 2), Vec(SpecialNumeric, 24, 3), Vec(NumberedNumeric, 6, 2)}

\* a message of one of these types as a phase carries it: the block information word,
\* one address (short, or long with its second word), its vector word at vector_offset
\* and data words everywhere else
VectorInputs ==
    [kind : {"vector"}, vector_offset : {3, 4}, aiw : {ShortAiw(510), 1000},
     viw : VectorWords, data : {4660, 1198421, 2097151}]

\* the data word at index k (from 0) of such a phase
DataWordAt(t, k) == (t.data + k * 69905) % (MESSAGE_BITS_MASK + 1)

VectorPhaseData(t) ==
    [k \in 1..PHASE_WORDS |->
        IF k = 1 THEN Biw(1, t.vector_offset)
        ELSE IF k = 2 THEN t.aiw
        ELSE IF k = 3 THEN MESSAGE_BITS_MASK - 1
        ELSE IF k = t.vector_offset + 1 THEN t.viw
        ELSE DataWordAt(t, k - 1)]

\* processPhase, for the address word at 1: what it passes to parseMessageContent
TxAddressInfo == processAddressInfoWord(VectorPhaseData(tx)[2], VectorPhaseData(tx)[3])

TxVectorInfo ==
    processVectorInfoWord(VectorPhaseData(tx)[tx.vector_offset + 1], TxAddressInfo,
                          IF TxAddressInfo.long_address
                          THEN VectorPhaseData(tx)[tx.vector_offset + 2] ELSE 0)

InitParser ==
    /\ Constructed
    /\ groups = groupsReset
    /\ registered = RegisteredNone
    /\ tx \in ParserInputs \cup VectorInputs
    /\ call = [op |-> "none"]

\* AlphanumericParser::parseMessage(input)
ParseAlphanumeric ==
    /\ call.op = "none"
    /\ tx.kind = "content"
    /\ call' = [op |-> "parseMessage", result |-> alnParseMessage(TxParseInput, TxPhaseData)]
    /\ UNCHANGED <<sm, demod, syn, dc, groups, frames, obs, tx, registered>>

\* the parser FlexMessageDecoder::getParserForType picks for a numeric or a tone message
vectorParse(input, phase_data) ==
    IF input.type = Tone THEN toneParseMessage(input, phase_data)
    ELSE numericParseMessage(input, phase_data)

\* FlexFrameProcessor::parseMessageContent for a numeric or a tone message: the input
\* it prepares and what the parser of the message type returns for it
ParseVectorMessage ==
    /\ call.op = "none"
    /\ tx.kind = "vector"
    /\ TxAddressInfo.is_valid /\ TxVectorInfo.is_valid
    /\ call' = [op |-> "parseMessageContent",
                input |-> parseInput(TxAddressInfo, TxVectorInfo,
                                     [cycle_number |-> 0, frame_number |-> 0,
                                      levels |-> LEVELS_2FSK]),
                result |-> vectorParse(parseInput(TxAddressInfo, TxVectorInfo,
                                                  [cycle_number |-> 0, frame_number |-> 0,
                                                   levels |-> LEVELS_2FSK]),
                                       VectorPhaseData(tx))]
    /\ UNCHANGED <<sm, demod, syn, dc, groups, frames, obs, tx, registered>>

NextParser == ParseAlphanumeric \/ ParseVectorMessage

SpecParser == InitParser /\ [][NextParser]_vars

----------------------------------------------------------------------------
(* The message decoder fed message after message.  tx is the list of the     *)
(* messages parsed so far; call holds the result of the last parseMessage    *)
(* and the decoder's fragment_buffers_ after it.  The messages are           *)
(* alphanumeric messages of two words to individual capcodes, so the group   *)
(* processing of parseMessage does not apply to them.                        *)

MaxMessages == 3

\* a default-constructed FragmentBuffer
FragmentBufferInit ==
    [assembled_content |-> <<>>, last_fragment_flag |-> "Unknown", capcode |-> 0,
     fragment_count |-> 0, is_complete |-> FALSE]

\* FragmentBuffer::addFragment
addFragment(buffer, content, flag) ==
    [buffer EXCEPT !.assembled_content = @ \o content,
                   !.last_fragment_flag = flag,
                   !.fragment_count = @ + 1,
                   !.is_complete = @ \/ flag \in {"Complete", "Continuation"}]

\* fragment_buffers_[capcode]: the buffer, and the map with the buffer in it
bufferAt(fragment_buffers, capcode) ==
    IF capcode \in DOMAIN fragment_buffers THEN fragment_buffers[capcode]
    ELSE FragmentBufferInit

withBuffer(fragment_buffers, capcode, buffer) ==
    [k \in DOMAIN fragment_buffers \cup {capcode} |->
        IF k = capcode THEN buffer ELSE fragment_buffers[k]]

\* fragment_buffers_.erase(capcode)
eraseBuffer(fragment_buffers, capcode) ==
    [k \in DOMAIN fragment_buffers \ {capcode} |-> fragment_buffers[k]]

RECURSIVE toString(_)
\* std::to_string of an unsigned number
toString(n) == IF n < 10 THEN <<48 + n>> ELSE toString(n \div 10) \o <<48 + (n % 10)>>

\* "[Fragment " + std::to_string(n) + " buffered]"
fragmentBuffered(n) ==
    <<91, 70, 114, 97, 103, 109, 101, 110, 116, 32>> \o toString(n)
        \o <<32, 98, 117, 102, 102, 101, 114, 101, 100, 93>>

\* processFragment, the branch of a Fragment: buffer is fragment_buffers_[capcode]
fragmentStore(fragment_buffers, result, capcode, buffer) ==
    [result |-> [result EXCEPT !.content = fragmentBuffered(buffer.fragment_count)],
     fragment_buffers |-> withBuffer(fragment_buffers, capcode, buffer)]

\* processFragment, the branch of a Continuation
fragmentComplete(fragment_buffers, result, capcode, buffer) ==
    IF buffer.fragment_count > 0 /\ buffer.capcode = capcode
    THEN [result |-> [result EXCEPT
                         !.content = addFragment(buffer, result.content,
                                                 result.fragment_flag).assembled_content,
                         !.fragment_flag = "Complete"],
          fragment_buffers |-> eraseBuffer(fragment_buffers, capcode)]
    ELSE [result |-> result, fragment_buffers |-> withBuffer(fragment_buffers, capcode, buffer)]

\* processFragment, the branch of a Fragment: the first fragment names the buffer
fragmentOwner(buffer, capcode) ==
    IF buffer.fragment_count = 0 THEN [buffer EXCEPT !.capcode = capcode] ELSE buffer

\* FlexMessageDecoder::processFragment: the buffer is looked up under the key
\* capcode, a local that is 0 for every message
processFragmentAt(fragment_buffers, result, capcode) ==
    IF result.fragment_flag \in {"Complete", "Unknown"}
    THEN [result |-> result, fragment_buffers |-> fragment_buffers]
    ELSE IF result.fragment_flag = "Fragment"
    THEN fragmentStore(fragment_buffers, result, capcode,
                       addFragment(fragmentOwner(bufferAt(fragment_buffers, capcode), capcode),
                                   result.content, result.fragment_flag))
    ELSE fragmentComplete(fragment_buffers, result, capcode,
                          bufferAt(fragment_buffers, capcode))

processFragment(fragment_buffers, result) == processFragmentAt(fragment_buffers, result, 0)

isSpace(ch) == ch \in {32, 9, 13, 10}

RECURSIVE findFirstNotSpace(_, _)
\* content.find_first_not_of(" \t\r\n") from index i (from 1); 0 stands for npos
findFirstNotSpace(content, i) ==
    IF i > Len(content) THEN 0
    ELSE IF ~isSpace(content[i]) THEN i
    ELSE findFirstNotSpace(content, i + 1)

RECURSIVE findLastNotSpace(_, _)
\* content.find_last_not_of(" \t\r\n") from index i down
findLastNotSpace(content, i) ==
    IF i < 1 THEN 0
    ELSE IF ~isSpace(content[i]) THEN i
    ELSE findLastNotSpace(content, i - 1)

\* FlexMessageDecoder::postProcessMessage
postProcessMessage(result) ==
    IF ~result.success \/ result.content = <<>> THEN result
    ELSE IF findFirstNotSpace(result.content, 1) = 0 THEN [result EXCEPT !.content = <<>>]
    ELSE [result EXCEPT !.content = SubSeq(@, findFirstNotSpace(@, 1),
                                           findLastNotSpace(@, Len(@)))]

\* FlexMessageDecoder::validateMessage
validateMessage(result) == Len(result.content) <= MAX_ALN_LENGTH

\* parseMessage from validateMessage on, for a result without group data
decoderAssemble(fragment_buffers, result) ==
    IF ~result.success \/ ~validateMessage(result)
    THEN [result |-> [result EXCEPT !.success = FALSE], fragment_buffers |-> fragment_buffers]
    ELSE [result |-> postProcessMessage(processFragment(fragment_buffers, result).result),
          fragment_buffers |-> processFragment(fragment_buffers, result).fragment_buffers]

\* the capcodes messages are sent to, and the data word each of them is sent:
\* "ABC" and " XY"
FragmentCapcodes == {600, 601}
WordFor(capcode) == IF capcode = 600 THEN TextWord ELSE 32 + 88 * 128 + 89 * 16384

\* the characters of the messages sent to capcode
PayloadChars(capcode) ==
    {WordFor(capcode) % 128, (WordFor(capcode) \div 128) % 128,
     (WordFor(capcode) \div 16384) % 128}

\* the message as parseMessageContent hands it to the decoder: two words at word 10
FragmentInput(m) ==
    [type |-> Alphanumeric, message_word_start |-> 10, message_length |-> 2,
     fragment_number |-> m.fragment_number, continuation_flag |-> m.continuation_flag]

FragmentPhaseData(m) == [i \in 1..PHASE_WORDS |-> WordFor(m.capcode)]

InitFragment ==
    /\ Constructed
    /\ groups = groupsReset
    /\ registered = RegisteredNone
    /\ tx = [sent |-> <<>>]
    /\ call = [op |-> "none", fragment_buffers |-> <<>>]

\* FlexMessageDecoder::parseMessage on the next message
ParseFragmentMessage(m) ==
    /\ Len(tx.sent) < MaxMessages
    /\ tx' = [sent |-> Append(tx.sent, m)]
    /\ \E r \in {decoderAssemble(call.fragment_buffers,
                                 alnParseMessage(FragmentInput(m), FragmentPhaseData(m)))} :
          call' = [op |-> "parseMessage", capcode |-> m.capcode, result |-> r.result,
                   fragment_buffers |-> r.fragment_buffers]
    /\ UNCHANGED <<sm, demod, syn, dc, groups, frames, obs, registered>>

\* FlexMessageDecoder::clearFragmentBuffers
ClearFragmentBuffers ==
    /\ call.op = "parseMessage"
    /\ call.fragment_buffers # <<>>
    /\ call' = [op |-> "none", fragment_buffers |-> <<>>]
    /\ UNCHANGED <<sm, demod, syn, dc, groups, frames, obs, tx, registered>>

NextFragment ==
    \/ \E m \in [capcode : FragmentCapcodes, fragment_number : {0, 3},
                 continuation_flag : BOOLEAN] : ParseFragmentMessage(m)
    \/ ClearFragmentBuffers

SpecFragment == InitFragment /\ [][NextFragment]_vars

----------------------------------------------------------------------------
(* Properties of the frame state machine (SpecDecoder) *)

State == sm.current_state

\* a symbol was dispatched by processSymbol to the handler of state st in this step
Handled(st) == obs'.kind = "sample" /\ obs'.dispatched /\ obs'.handler = st

\* C1: the protocol state changes only by SYNC1->FIW on a sync detection,
\* FIW->SYNC2, FIW->SYNC1, SYNC2->DATA or DATA->SYNC1 on a dispatched symbol, or
\* by a forced return to SYNC1 while the lock is lost or on reset()
C1_Transitions ==
    [][State' # State =>
        \/ State = "Sync1" /\ State' = "FIW" /\ Handled("Sync1") /\ obs'.sync_code # 0
        \/ State = "FIW" /\ State' = "Sync2" /\ Handled("FIW")
        \/ State = "FIW" /\ State' = "Sync1" /\ Handled("FIW")
        \/ State = "Sync2" /\ State' = "Data" /\ Handled("Sync2")
        \/ State = "Data" /\ State' = "Sync1" /\ Handled("Data")
        \/ State' = "Sync1" /\ (~demod.locked \/ obs'.kind = "reset")]_vars

\* a whole frame has been walked through: DATA was just left for SYNC1
C1_Witness == State = "Sync1" /\ obs.handler = "Data" /\ obs.dispatched /\ Len(frames) = 1

\* sum of the five nibbles and the top bit of the 21 information bits
NibbleSum(w) ==
    (w[2] % 16) + ((w[2] \div 16) % 16) + ((w[2] \div 256) % 16) + (w[2] \div 4096)
    + (w[1] % 16) + ((w[1] \div 16) % 2)

\* BCH correction succeeded and the corrected word passes the checksum
FiwAccepted(fx) == fx.ok /\ NibbleSum(fx.data) % 16 = 15

\* C2: FIW is entered with a zero symbol count, every symbol handled in FIW
\* counts once, no decision is taken before the 48th symbol, and on the 48th
\* the state becomes SYNC2 iff BCH correction of fiw_raw succeeds and the nibble
\* sum of the corrected word is 0xF (mod 16), and SYNC1 otherwise
C2_FiwDecision ==
    [][/\ (State # "FIW" /\ State' = "FIW") => sm'.fiw_count = 0
       /\ Handled("FIW") =>
            /\ State = "FIW"
            /\ sm'.fiw_count = sm.fiw_count + 1
            /\ sm'.fiw_count < FIW_TOTAL_BITS => State' = "FIW"
            /\ sm'.fiw_count = FIW_TOTAL_BITS =>
                 /\ FiwAccepted(fixErrors(sm'.fiw_raw_data)) <=> State' = "Sync2"
                 /\ State' \in {"Sync2", "Sync1"}]_vars

\* an FIW with two bit errors was corrected and accepted on the 48th symbol
C2_Witness ==
    /\ State = "Sync2" /\ obs.handler = "FIW" /\ obs.dispatched
    /\ sm.fiw_count = FIW_TOTAL_BITS
    /\ sm.fiw_raw_data = TxFiw.err2

PhasesProcessed(f) == [k \in 1..Len(f.swept) |-> f.swept[k].phase_name]

C24_Reset ==
    [][(TxEvent("reset") /\ tx'.ev_done) =>
         /\ sm'.current_state = "Sync1"
         /\ sm'.fiw_count = 0 /\ sm'.fiw_raw_data = U32Zero
         /\ sm'.sync2_count = 0 /\ sm'.data_count = 0
         /\ demod'.current_baud = 1600
         /\ ~demod'.locked
         /\ demod'.lock_buffer = LockBufferZero
         /\ syn' = syncReset
         /\ dc'.phase_a = PhaseCleared /\ dc'.phase_b = PhaseCleared
         /\ dc'.phase_c = PhaseCleared /\ dc'.phase_d = PhaseCleared
         /\ dc'.data_bit_counter = 0 /\ ~dc'.phase_toggle
         /\ groups' = groupsReset
         /\ frames' = frames]_vars

C35_UnlockedHoldsSync1 ==
    [][obs'.kind = "sample" =>
          /\ ~demod.locked => /\ State' = "Sync1"
                              /\ demod'.current_baud = 1600
                              /\ frames' = frames
                              /\ ~obs'.dispatched
          /\ obs'.dispatched => demod.locked]_vars

\* the lock was lost during the DATA period: the next sample found the decoder in DATA
\* and unlocked and left it in SYNC1, no frame processed
C35_Witness ==
    /\ obs.kind = "sample" /\ obs.state = "Data" /\ ~obs.dispatched
    /\ ~demod.locked
    /\ State = "Sync1"
    /\ sm.data_count > 0
    /\ frames = <<>>

\* the symbols dispatched since the one that entered FIW
Elapsed ==
    CASE State = "FIW" -> sm.fiw_count
      [] State = "Sync2" -> FIW_TOTAL_BITS + sm.sync2_count
      [] State = "Data" -> FIW_TOTAL_BITS + sm.sync2_count + sm.data_count
      [] OTHER -> 0

\* 48 + baud * 25 / 1000 + baud * 1760 / 1000 for the baud of the detected mode
FrameBound ==
    FIW_TOTAL_BITS + (sm.sync_info.baud_rate * SYNC2_DURATION_MS) \div 1000
                   + (sm.sync_info.baud_rate * DATA_DURATION_MS) \div 1000

\* C40: outside SYNC1 every dispatched symbol either returns the decoder to SYNC1 or
\* counts towards the frame, and the count of symbols dispatched since FIW was entered
\* stays below 48 + baud * 25 / 1000 + baud * 1760 / 1000: the decoder is in SYNC1
\* again after at most that many dispatched symbols.
C40_BackToSync1 ==
    [][/\ State' # "Sync1" => Elapsed' < FrameBound'
       /\ (State # "Sync1" /\ obs'.kind = "sample" /\ obs'.dispatched) =>
              State' = "Sync1" \/ Elapsed' = Elapsed + 1]_vars

\* a 1600-baud frame on the last symbol before its data period ends
C40_Witness ==
    /\ State = "Data"
    /\ sm.sync_info.baud_rate = 1600
    /\ Elapsed = FrameBound - 1

----------------------------------------------------------------------------
(* Properties of the group registry (SpecGroup) *)

\* C8: a successful register appends the capcode to the addressed group, sets
\* target_frame to the assigned frame and target_cycle to the current cycle if
\* the assigned frame is still ahead, else to the next cycle modulo 16
C8_Register ==
    [][(call'.op = "register" /\ call'.ok) =>
        LET b == (call'.vector_word \div 131072) % 128
            assigned == (call'.vector_word \div 1024) % 128
        IN  /\ groups'[b].capcodes = Append(groups[b].capcodes, call'.capcode)
            /\ groups'[b].target_frame = assigned
            /\ groups'[b].target_cycle =
                 (IF assigned > call'.frame THEN call'.cycle
                  ELSE IF call'.cycle = 15 THEN 0 ELSE call'.cycle + 1)
            /\ groups'[b].target_cycle \in 0..15]_vars

\* a registration in cycle 15 for a frame not ahead wrapped to cycle 0
C8_Witness ==
    /\ call.op = "register" /\ call.ok /\ call.cycle = 15
    /\ groups[call.group_bit].target_cycle = 0
    /\ groups[call.group_bit].capcodes # <<>>

\* C9: register fails, leaving the registry as it was, exactly when the group
\* bit is outside 0..16 or the addressed list already holds 1000 capcodes;
\* an accepted group bit has a slot in the registry
C9_RegisterRejects ==
    [][call'.op = "register" =>
        LET b == (call'.vector_word \div 131072) % 128
            rejected == b \notin 0..16 \/ Len(groups[b].capcodes) = 1000
        IN  /\ call'.ok <=> ~rejected
            /\ ~call'.ok => groups' = groups
            /\ call'.ok => b \in DOMAIN groups /\ groups'[b] # groups[b]]_vars

\* a registration was refused because group 16 was full
C9_Witness ==
    /\ call.op = "register" /\ ~call.ok /\ call.group_bit = 16
    /\ Len(groups[16].capcodes) = MAX_CAPCODES_PER_GROUP

\* C10: deliver on a group holding capcodes returns the capcodes registered
\* since the group was last cleared, in order, and leaves (empty, -1, -1);
\* otherwise it returns nothing and changes nothing; a deliver right after a
\* deliver of the same group returns nothing
C10_Deliver ==
    [][call'.op = "deliver" =>
        LET b == call'.group_bit
        IN  /\ IF b \in DOMAIN groups /\ groups[b].capcodes # <<>>
               THEN /\ call'.ok
                    /\ call'.capcodes = registered[b]
                    /\ groups' = [groups EXCEPT ![b] =
                          [capcodes |-> <<>>, target_frame |-> -1, target_cycle |-> -1]]
               ELSE ~call'.ok /\ call'.capcodes = <<>> /\ groups' = groups
            /\ (call.op = "deliver" /\ call.group_bit = b) => ~call'.ok]_vars

\* two capcodes registered one after the other were delivered in that order
C10_Witness ==
    /\ call.op = "deliver" /\ call.ok /\ call.capcodes = <<500, 501>>
    /\ groups[call.group_bit] = GroupCleared

\* the three reset rules of the cleanup scan, for group entry g
ResetRule(g, cycle, frame) ==
    \/ cycle = g.target_cycle /\ g.target_frame < frame
    \/ cycle = 0 /\ g.target_cycle = 15
    \/ g.target_cycle < cycle

\* the scan waits for the rollover: cycle 15 with a target in cycle 0
WaitsForRollover(g, cycle) == cycle = 15 /\ g.target_cycle = 0

\* C11 as stated: cleanup clears every pending group for which one of the three
\* reset rules holds and leaves the others as they were
C11_AnyRuleClears ==
    [][call'.op = "cleanup" =>
        \A b \in DOMAIN groups :
            groups[b].capcodes # <<>> =>
                IF ResetRule(groups[b], call'.cycle, call'.frame)
                THEN groups'[b] = GroupCleared
                ELSE groups'[b] = groups[b]]_vars

\* C11, amended: cleanup clears every pending group for which one of the three
\* reset rules holds, except a group targeted at cycle 0 while the current
\* cycle is 15, and leaves the others as they were; it reports the cleared bits
C11_Expiry ==
    [][call'.op = "cleanup" =>
        \A b \in DOMAIN groups :
            groups[b].capcodes # <<>> =>
                IF /\ ResetRule(groups[b], call'.cycle, call'.frame)
                   /\ ~WaitsForRollover(groups[b], call'.cycle)
                THEN groups'[b] = GroupCleared /\ b \in call'.missed
                ELSE groups'[b] = groups[b] /\ b \notin call'.missed]_vars

\* a cleanup in cycle 15 left a group targeted at cycle 0 pending
C11_Witness ==
    /\ call.op = "cleanup" /\ call.cycle = 15
    /\ \E b \in DOMAIN groups : groups[b].capcodes # <<>> /\ groups[b].target_cycle = 0

\* C25: whatever was registered, delivered, cleaned up or reset, every group entry is
\* either empty with target (-1, -1) or holds 1 to 1000 capcodes with a target cycle in
\* 0..15 and a target frame in 0..127.
C25_EntryConsistent ==
    \A b \in DOMAIN groups :
        \/ groups[b] = GroupCleared
        \/ /\ Len(groups[b].capcodes) \in 1..MAX_CAPCODES_PER_GROUP
           /\ groups[b].target_cycle \in 0..15
           /\ groups[b].target_frame \in 0..127

\* group 16 has been filled to the limit, group 5 holds a capcode registered in cycle 15
\* for frame 0 of cycle 0
C25_Witness ==
    /\ Len(groups[16].capcodes) = MAX_CAPCODES_PER_GROUP
    /\ groups[5].capcodes # <<>>
    /\ groups[5].target_cycle = 0 /\ groups[5].target_frame = 0
    /\ call.op = "register" /\ call.ok /\ call.n = MaxOps - 1

----------------------------------------------------------------------------
(* Properties of the BCH codec (SpecBch) *)

\* C15: whatever data word is encoded and whichever w <= 2 of the 31 positions are
\* flipped, decoding succeeds, returns the codeword that was sent, and the number of
\* positions fixed is w
C15_Corrects ==
    (call.op = "correct" /\ Cardinality(tx.flipped) <= BCH_T)
        => /\ call.retval = 0
           /\ call.received = encode(DataBits(tx.data))
           /\ call.errors_fixed = Cardinality(tx.flipped)

C15_Witness ==
    /\ call.op = "correct"
    /\ tx.data = 703710
    /\ tx.flipped = {0, 30}
    /\ call.errors_fixed = 2

\* C36: when decode reports success the word it leaves is a codeword (the syndromes
\* S1..S4 are zero), and when it reports failure the word is the one received.
C36_SuccessIsCodeword ==
    call.op = "correct" =>
        /\ call.retval = 0 => \A i \in 1..4 : Syndrome(call.received, i) = 0
        /\ call.retval # 0 => call.received = BchReceived

----------------------------------------------------------------------------
(* Properties of frame processing (SpecFrame) *)

\* a processFrame call has just returned; NewFrame is what it produced
FrameDone == Len(frames') = Len(frames) + 1
NewFrame == frames'[Len(frames')]

PhaseRank(phase_name) ==
    CASE phase_name = "A" -> 1 [] phase_name = "B" -> 2
      [] phase_name = "C" -> 3 [] phase_name = "D" -> 4

\* the frame fr holds a message record for the address word i of the phase
Emitted(fr, phase_name, i) ==
    \E j \in 1..Len(fr.messages) :
        fr.messages[j].phase_name = phase_name /\ fr.messages[j].aiw_index = i

\* C12: a message to a group capcode 2029568 + g emitted while group g has pending
\* capcodes carries exactly the capcodes of group g, in registration order, and
\* leaves group g empty.
C12_GroupDelivery ==
    [][FrameDone =>
          \A j \in 1..Len(NewFrame.lines) :
              (/\ isGroupCapcode(NewFrame.lines[j].line.capcode)
               /\ groups[getGroupBit(NewFrame.lines[j].line.capcode)].capcodes # <<>>)
              => /\ NewFrame.lines[j].line.group_capcodes
                        = groups[getGroupBit(NewFrame.lines[j].line.capcode)].capcodes
                 /\ groups'[getGroupBit(NewFrame.lines[j].line.capcode)].capcodes = <<>>]_vars

\* C13: capcode 500 was assigned to group bit 5 in cycle 2, frame 100, for frame 0 of
\* the next cycle; the FIW scan of cycle 3, frame 0 has left the group pending, the
\* message to capcode 2029573 in that frame carries the list [500], and group 5 is
\* empty afterwards.
C13_Rollover ==
    [][(/\ FrameDone
        /\ Len(frames) = 1
        /\ Frames[tx.last].cycle_no = 2 /\ Frames[tx.last].frame_no = 100
        /\ Frames[tx.last].phases[1] = PRegister(0)
        /\ TxFrame.cycle_no = 3 /\ TxFrame.frame_no = 0
        /\ TxFrame.phases[1] = PDeliver)
       => /\ groups[5].capcodes = << <<0, 500>> >>
          /\ \E j \in 1..Len(NewFrame.lines) :
                 /\ NewFrame.lines[j].line.capcode = <<30, 63493>>
                 /\ NewFrame.lines[j].line.group_capcodes = << <<0, 500>> >>
          /\ groups'[5].capcodes = <<>>]_vars

\* C14: a Short Instruction registers the capcode of its address word under the
\* group bit, with the target computed from the cycle and frame of the frame being
\* processed, and produces no message record and no output line.
C14_ShortInstruction ==
    [][FrameDone =>
          /\ \A j \in 1..Len(NewFrame.messages) :
                 NewFrame.messages[j].message_type # ShortInstruction
          /\ \A j \in 1..Len(NewFrame.lines) :
                 NewFrame.lines[j].line.type # ShortInstruction
          /\ \A af \in 0..127 :
                 TxFrame.phases[1] = PRegister(af)
                 => groups'[5] = [capcodes |-> Append(groups[5].capcodes, <<0, 500>>),
                                  target_frame |-> af,
                                  target_cycle |-> calculateTargetCycle(af, TxFrame.cycle_no,
                                                                        TxFrame.frame_no)]]_vars

\* what the word i (from 1) of the swept phase s must hold, p being the phase as sent
SweptWord(s, p, i) ==
    IF i \in s.failed THEN MESSAGE_BITS_MASK
    ELSE IF i <= Len(p.words) THEN p.words[i]
    ELSE MESSAGE_BITS_MASK

\* C16 for the swept phase s of the frame fr, p being the phase as sent
SweepRule(fr, s, p) ==
    /\ s.failed = {i \in 1..PHASE_WORDS : i > PHASE_WORDS - p.bad}
    /\ s.success <=> ~(Cardinality(s.failed) > 44)
    /\ ~s.success => \A j \in 1..Len(fr.messages) : fr.messages[j].phase_name # s.phase_name
    /\ ~s.success => \A j \in 1..Len(fr.lines) : fr.lines[j].phase_name # s.phase_name
    /\ s.success => \A i \in 1..PHASE_WORDS : s.phase_data[i] = SweptWord(s, p, i)

\* C16: every active phase has fix_errors run on its 88 words; it is abandoned, with no
\* message and no registry change, exactly when more than 44 words fail; otherwise the
\* failed words read 0x1FFFFF and all others their corrected low 21 bits.
C16_Sweep ==
    [][FrameDone =>
          /\ Len(NewFrame.swept) > 0
          /\ \A k \in 1..Len(NewFrame.swept) :
                 SweepRule(NewFrame, NewFrame.swept[k],
                           TxFrame.phases[PhaseRank(NewFrame.swept[k].phase_name)])
          /\ (\A k \in 1..Len(NewFrame.swept) : ~NewFrame.swept[k].success)
             => groups' = groups /\ NewFrame.messages = <<>>]_vars

\* a phase with exactly 44 failed words gave a registration and a message, the next
\* frame's phase with 45 failed words gave nothing
C16_Witness ==
    /\ Len(frames) = 2
    /\ Cardinality(frames[1].swept[1].failed) = 44
    /\ Len(frames[1].messages) = 2
    /\ groups[7].capcodes = << <<0, 800>> >>
    /\ Cardinality(frames[2].swept[1].failed) = 45
    /\ frames[2].messages = <<>>

\* the address words ao..vo-1 of the swept phase are all short, valid addresses
AllShort(pd) ==
    \A i \in extractBlockInfoWord(pd).address_offset..(extractBlockInfoWord(pd).vector_offset - 1) :
        /\ pd[i + 1] # 0 /\ pd[i + 1] # MESSAGE_BITS_MASK
        /\ ~isLongAddress(pd[i + 1])
        /\ processAddressInfoWord(pd[i + 1], pd[i + 2]).is_valid

\* the vector word of the address word i, start and length adjusted to the address type
Adjusted(pd, i) ==
    viwAdjust(viwFields(pd[extractBlockInfoWord(pd).vector_offset + i
                           - extractBlockInfoWord(pd).address_offset + 1]),
              processAddressInfoWord(pd[i + 1], pd[i + 2]))

\* the rule of C17 for a vector v, ao and vo being the offsets of the phase
InBounds(v, ao, vo) ==
    v.message_length # 0 /\ vo + (vo - ao) <= v.message_word_start
                         /\ v.message_word_start < PHASE_WORDS

Truncated(v) ==
    IF v.message_word_start + v.message_length > PHASE_WORDS
    THEN PHASE_WORDS - v.message_word_start ELSE v.message_length

BoundsRule(fr, s, i, v, biw) ==
    v.message_type \notin {ShortInstruction, Tone}
    => /\ Emitted(fr, s.phase_name, i) <=> InBounds(v, biw.address_offset, biw.vector_offset)
       /\ \A j \in 1..Len(fr.messages) :
              (fr.messages[j].phase_name = s.phase_name /\ fr.messages[j].aiw_index = i)
              => fr.messages[j].message_length = Truncated(v)

\* C17: a vector that is neither Short Instruction nor Tone is dispatched exactly when,
\* after the adjustment, len # 0 and vo + (vo - ao) <= mw1 < 88; a dispatched message
\* with mw1 + len > 88 is emitted with len cut to 88 - mw1.
C17_Bounds ==
    \A f \in 1..Len(frames) : \A k \in 1..Len(frames[f].swept) :
        (/\ frames[f].swept[k].success
         /\ extractBlockInfoWord(frames[f].swept[k].phase_data).is_valid
         /\ AllShort(frames[f].swept[k].phase_data))
        => \A i \in extractBlockInfoWord(frames[f].swept[k].phase_data).address_offset
                    ..(extractBlockInfoWord(frames[f].swept[k].phase_data).vector_offset - 1) :
               BoundsRule(frames[f], frames[f].swept[k], i,
                          Adjusted(frames[f].swept[k].phase_data, i),
                          extractBlockInfoWord(frames[f].swept[k].phase_data))

\* C18: an address word at index i that is long and processed consumes two slots: the
\* word at index i + 1 is never taken for an address word of its own.
C18_LongConsumesTwo ==
    \A f \in 1..Len(frames) : \A j \in 1..Len(frames[f].messages) :
        frames[f].messages[j].long_address
        => ~Emitted(frames[f], frames[f].messages[j].phase_name,
                    frames[f].messages[j].aiw_index + 1)

\* a comes before b in protocol order
Before(a, b) ==
    \/ PhaseRank(a.phase_name) < PhaseRank(b.phase_name)
    \/ a.phase_name = b.phase_name /\ a.aiw_index < b.aiw_index

Ordered(seq) == \A a \in 1..Len(seq) : \A b \in (a + 1)..Len(seq) : Before(seq[a], seq[b])

\* C20: output is produced only by the call that completes a frame, frame after frame
\* in the order received; within a frame phase A comes before B, C and D, and within a
\* phase the address words come in increasing index.
C20_Order ==
    [][frames' # frames =>
          /\ tx.cur # 0 /\ tx'.cur = 0
          /\ frames' = Append(frames, NewFrame)
          /\ NewFrame.cycle_no = TxFrame.cycle_no /\ NewFrame.frame_no = TxFrame.frame_no
          /\ Ordered(NewFrame.lines)
          /\ Ordered(NewFrame.messages)
          /\ \A j \in 1..Len(NewFrame.lines) :
                 /\ NewFrame.lines[j].line.cycle_number = TxFrame.cycle_no
                 /\ NewFrame.lines[j].line.frame_number = TxFrame.frame_no]_vars

\* a 3200-baud, 4-level frame has given two lines in each of the phases A, B, C, D
C20_Witness ==
    /\ Len(frames) > 0
    /\ Len(frames[Len(frames)].lines) = 8
    /\ frames[Len(frames)].lines[1].phase_name = "A"
    /\ frames[Len(frames)].lines[8].phase_name = "D"
    /\ frames[Len(frames)].lines[8].aiw_index = 2

\* C23: every line printed for a frame names the phase its message was decoded from and
\* the baud rate and the levels of the mode the frame was sent in.
C23_Metadata ==
    \A k \in 1..Len(frames) : \A n \in 1..Len(frames[k].lines) :
        /\ frames[k].lines[n].line.phase_id = frames[k].lines[n].phase_name
        /\ frames[k].lines[n].line.baud_rate = frames[k].baud_rate
        /\ frames[k].lines[n].line.levels = frames[k].fsk_levels

\* C26: a frame in which capcodes are registered is processed with the cycle and frame
\* numbers of its FIW from its first message to its last, also when the assigned frame
\* has passed in a cycle other than 15, and a group entry that gained no capcode keeps
\* its list and its target.
C26_RegisterLocal ==
    [][FrameDone =>
          /\ NewFrame.cycle_no = TxFrame.cycle_no
          /\ NewFrame.frame_no = TxFrame.frame_no
          /\ \A j \in 1..Len(NewFrame.lines) :
                 /\ NewFrame.lines[j].line.cycle_number = TxFrame.cycle_no
                 /\ NewFrame.lines[j].line.frame_number = TxFrame.frame_no
          /\ \A b \in DOMAIN groups :
                 groups'[b].capcodes = groups[b].capcodes => groups'[b] = groups[b]
          /\ TxFrame.phases[1] = PRegisterThenMessage =>
                 /\ groups'[6] = [capcodes |-> Append(groups[6].capcodes, <<0, 510>>),
                                  target_frame |-> 5,
                                  target_cycle |-> TxFrame.cycle_no + 1]
                 /\ \A b \in DOMAIN groups : b # 6 => groups'[b] = groups[b]]_vars

\* capcode 500 waits in group 5 for frame 101 of cycle 2; in that frame capcode 510 was
\* registered in group 6 for frame 5 of cycle 3 and the message after it was printed
\* with cycle 2
C26_Witness ==
    /\ Len(frames) = 2
    /\ frames[2].cycle_no = 2 /\ frames[2].frame_no = 101
    /\ groups[5] = [capcodes |-> << <<0, 500>> >>, target_frame |-> 101, target_cycle |-> 2]
    /\ groups[6] = [capcodes |-> << <<0, 510>> >>, target_frame |-> 5, target_cycle |-> 3]
    /\ Len(frames[2].lines) = 1
    /\ frames[2].lines[1].line.capcode = <<0, 511>>
    /\ frames[2].lines[1].line.cycle_number = 2

\* the swept words of the phase phase_name of frame fr
PhaseDataOf(fr, phase_name) ==
    (CHOOSE s \in {fr.swept[k] : k \in 1..Len(fr.swept)} : s.phase_name = phase_name).phase_data

\* index j of the vector word that belongs to the address word at index i
VectorIndexOf(pd, i) == ((pd[1] \div 1024) % 64) + i - (((pd[1] \div 256) % 4) + 1)

\* the header word of the message of line l: for a short address the word the start
\* field of the vector word points at, for a long address the word after the vector word
HeaderOf(pd, l) ==
    IF l.line.long_address
    THEN pd[VectorIndexOf(pd, l.aiw_index) + 2]
    ELSE pd[((pd[VectorIndexOf(pd, l.aiw_index) + 1] \div 128) % 128) + 1]

\* C29: the fragment number and the continuation flag printed for an alphanumeric
\* message are bits 12..11 and bit 10 of its header word, which for a short address is
\* the word at the start index given in the vector word and for a long address the word
\* after the vector word.
C29_FragmentFields ==
    \A f \in 1..Len(frames) : \A n \in 1..Len(frames[f].lines) :
        frames[f].lines[n].line.type = Alphanumeric =>
            /\ frames[f].lines[n].line.fragment_number =
                   (HeaderOf(PhaseDataOf(frames[f], frames[f].lines[n].phase_name),
                             frames[f].lines[n]) \div 2048) % 4
            /\ frames[f].lines[n].line.continuation_flag =
                   ((HeaderOf(PhaseDataOf(frames[f], frames[f].lines[n].phase_name),
                              frames[f].lines[n]) \div 1024) % 2 = 1)

----------------------------------------------------------------------------
(* Properties of the data collector (SpecCollector) *)

\* a step that collects one data symbol
Collects == tx'.pos = tx.pos + 1

\* ((n >> 5) & 0xFFF8) | (n & 7)
DeinterleavedIndex(n) == (n \div 256) * 8 + (n % 8)

\* the bit of phase ph that the data symbol with counter value n carries
SentBit(ph, n) == U32Bit(SentWord(tx.pat, ph, DeinterleavedIndex(n)), (n % 256) \div 8) = 1

\* buffer b after bit is shifted in at the top of word idx
WrittenAt(b, idx, bit) == [b EXCEPT ![idx + 1] = U32ShrIns(@, bit)]

\* the phase buffer holds the 88 words sent for phase ph
Reconstructed(p, ph) == \A i \in 0..(PHASE_WORDS - 1) : p.buffer[i + 1] = SentWord(tx.pat, ph, i)

FullPeriod1600 == (BAUD_1600 * DATA_DURATION_MS) \div 1000
FullPeriod3200 == (3200 * DATA_DURATION_MS) \div 1000

\* C21: in a 1600-baud mode data symbol n shifts its bit into the top of word
\* ((n >> 5) & 0xFFF8) | (n & 7) of phase A (and of phase B in 4-level mode) and
\* leaves the other words alone, and after the 2816 symbols of a full data period
\* the phase buffers hold the 32-bit words that were sent.
C21_Deinterleave ==
    [][(Collects /\ TxMode.baud_rate = BAUD_1600) =>
         /\ dc'.phase_a.buffer =
                WrittenAt(dc.phase_a.buffer, DeinterleavedIndex(tx.pos), SentBit(0, tx.pos))
         /\ TxMode.levels = LEVELS_4FSK =>
                dc'.phase_b.buffer =
                    WrittenAt(dc.phase_b.buffer, DeinterleavedIndex(tx.pos), SentBit(1, tx.pos))
         /\ tx'.pos = FullPeriod1600 =>
                /\ Reconstructed(dc'.phase_a, 0)
                /\ TxMode.levels = LEVELS_4FSK => Reconstructed(dc'.phase_b, 1)]_vars

\* a full data period of a 1600-baud 4-level frame has been collected into phases A and B
C21_Witness ==
    /\ TxMode.baud_rate = BAUD_1600
    /\ TxMode.levels = LEVELS_4FSK
    /\ tx.pos = FullPeriod1600
    /\ Reconstructed(dc.phase_a, 0)
    /\ Reconstructed(dc.phase_b, 1)
    /\ dc.phase_b.buffer[PHASE_WORDS] # U32Zero

\* C27: in a 3200-baud mode the data symbols write phases A/B and phases C/D in turn at
\* the same index, the bit counter advances once per two symbols, and a full period of
\* 5632 symbols fills every word of phases A and C; in a 1600-baud mode every symbol
\* writes phases A/B and phases C and D are never written.
C27_Interleave ==
    [][Collects =>
         IF TxMode.baud_rate = BAUD_1600
         THEN /\ dc'.phase_a.buffer =
                     WrittenAt(dc.phase_a.buffer, DeinterleavedIndex(tx.pos), SentBit(0, tx.pos))
              /\ dc'.phase_c.buffer = PhaseCleared.buffer
              /\ dc'.phase_d.buffer = PhaseCleared.buffer
              /\ dc'.data_bit_counter = dc.data_bit_counter + 1
         ELSE /\ IF tx.pos % 2 = 0
                 THEN /\ dc'.phase_a.buffer =
                             WrittenAt(dc.phase_a.buffer, DeinterleavedIndex(tx.pos \div 2),
                                       SentBit(0, tx.pos \div 2))
                      /\ dc'.phase_c.buffer = dc.phase_c.buffer
                      /\ dc'.data_bit_counter = dc.data_bit_counter
                 ELSE /\ dc'.phase_c.buffer =
                             WrittenAt(dc.phase_c.buffer, DeinterleavedIndex(tx.pos \div 2),
                                       SentBit(2, tx.pos \div 2))
                      /\ dc'.phase_a.buffer = dc.phase_a.buffer
                      /\ dc'.data_bit_counter = dc.data_bit_counter + 1
              /\ sm'.current_state # "Data" =>
                     /\ tx'.pos = FullPeriod3200
                     /\ Reconstructed(dc'.phase_a, 0)
                     /\ Reconstructed(dc'.phase_c, 2)]_vars

\* the toggle the symbol of this step is written with
WrittenToggle == IF dc.baud_rate = BAUD_1600 THEN FALSE ELSE dc.phase_toggle

\* idle counter p1 is p0 plus one exactly when word idx of the phase is an idle word
IdleChecked(p0, p1, idx) ==
    p1.idle_count = p0.idle_count + (IF isIdlePattern(p1.buffer[idx + 1]) THEN 1 ELSE 0)

\* C28: at a word boundary the idle counter of each phase the symbol was written to goes
\* up by one exactly when the word just written is 0x00000000 or 0xFFFFFFFF, and the
\* idle counters of the two other phases keep their values.
C28_IdleCount ==
    [][(Collects /\ dc.data_bit_counter % 256 = 255) =>
         IF ~WrittenToggle
         THEN /\ IdleChecked(dc.phase_a, dc'.phase_a, calculateBufferIndex(dc.data_bit_counter))
              /\ IdleChecked(dc.phase_b, dc'.phase_b, calculateBufferIndex(dc.data_bit_counter))
              /\ dc'.phase_c.idle_count = dc.phase_c.idle_count
              /\ dc'.phase_d.idle_count = dc.phase_d.idle_count
         ELSE /\ IdleChecked(dc.phase_c, dc'.phase_c, calculateBufferIndex(dc.data_bit_counter))
              /\ IdleChecked(dc.phase_d, dc'.phase_d, calculateBufferIndex(dc.data_bit_counter))
              /\ dc'.phase_a.idle_count = dc.phase_a.idle_count
              /\ dc'.phase_b.idle_count = dc.phase_b.idle_count]_vars

----------------------------------------------------------------------------
(* Properties of the parsers (SpecParser) *)

\* number of characters a character code takes in the escaped content
EscapedLength(ch) ==
    IF ch \in {9, 10, 13, 37} THEN 2 ELSE IF ch >= 32 /\ ch <= 126 THEN 1 ELSE 0

WordLength(w, skip_first) ==
    (IF skip_first THEN 0 ELSE EscapedLength(w % 128))
    + EscapedLength((w \div 128) % 128) + EscapedLength((w \div 16384) % 128)

RECURSIVE UncutLength(_, _)
\* length of the escaped content of the words lo .. hi - 1 of the message, if nothing
\* is cut
UncutLength(lo, hi) ==
    IF hi <= lo THEN 0
    ELSE IF hi = lo + 1
    THEN WordLength(TxPhaseData[PHASE_WORDS - tx.message_length + lo + 1],
                    lo = 0 /\ tx.fragment_number = 3)
    ELSE UncutLength(lo, (lo + hi) \div 2) + UncutLength((lo + hi) \div 2, hi)

\* C22: an alphanumeric message whose escaped content would be longer than 512
\* characters is parsed successfully and its content is exactly 512 characters long.
C22_Truncation ==
    (call.op = "parseMessage" /\ UncutLength(0, tx.message_length) > MAX_ALN_LENGTH) =>
        /\ call.result.success
        /\ Len(call.result.content) = MAX_ALN_LENGTH

\* C30: the numeric parser and the tone parser read the vector word of the message,
\* the phase word at vector_offset + (i - address_offset): what parseMessageContent
\* gets from the parser is what the parser yields when it reads that word.
C30_VectorWord ==
    call.op = "parseMessageContent" =>
        call.result = vectorParse([call.input EXCEPT !.vector_word_index =
                                       VectorIndexOf(VectorPhaseData(tx), 1)],
                                  VectorPhaseData(tx))

\* the phase words read for the message m of the processed frame fr are words of the
\* phase: the address word, the vector word, and for a message with a body the body
ReadsInRange(fr, m) ==
    /\ m.aiw_index < PHASE_WORDS
    /\ VectorIndexOf(PhaseDataOf(fr, m.phase_name), m.aiw_index) < PHASE_WORDS
    /\ m.message_type \in {Alphanumeric, Secure, Binary}
           => m.message_word_start + m.message_length <= PHASE_WORDS
    /\ m.message_type \in {StandardNumeric, SpecialNumeric, NumberedNumeric} /\ m.success
           => (PhaseDataOf(fr, m.phase_name)[1] \div 128) % 128 < PHASE_WORDS

\* C39: every phase-buffer access is in range: whenever the decoder is in DATA the
\* deinterleave index at which the next symbol is written is below 88, whatever lock
\* losses, rejected frame information words and re-synchronisations came before, and
\* every phase word read for a message of a processed frame has an index below 88
C39_AccessInRange ==
    /\ State = "Data" => calculateBufferIndex(dc.data_bit_counter) < PHASE_WORDS
    /\ \A k \in 1..Len(frames) : \A j \in 1..Len(frames[k].messages) :
           ReadsInRange(frames[k], frames[k].messages[j])

\* the data period of the frame that carries messages has been written to its last
\* word, index 87, and its messages have been read
C39_Witness ==
    /\ Len(frames) = 1
    /\ Len(frames[1].messages) >= 2
    /\ dc.data_bit_counter = PHASE_WORDS * 32
    /\ calculateBufferIndex(dc.data_bit_counter - 1) = PHASE_WORDS - 1

\* a transmission is received again after the lock was lost in its data period
Resynchronised == State = "Data" /\ tx.ev_done /\ TxScn.data = "again" /\ sm.data_count = ShortData - 1

\* C38: fragment assembly never combines content across recipients: the content of
\* a message that is emitted as complete or as a continuation for capcode X has
\* only characters of messages addressed to X
C38_OneRecipient ==
    call.op = "parseMessage" /\ call.result.success /\ call.result.fragment_flag # "Fragment"
        => \A i \in 1..Len(call.result.content) :
               call.result.content[i] \in PayloadChars(call.capcode)

----------------------------------------------------------------------------
(* Properties of the demodulator (SpecDemod) *)

\* C31: each time a symbol period completes while the demodulator is locked, exactly
\* one symbol is forwarded to the state machine, the argmax of the counts accumulated
\* during that period, and the counts are cleared exactly once per symbol period
C31_ModalSymbolForwarded ==
    obs.kind = "sample" /\ obs.wrap
        => /\ obs.cleared = 1
           /\ obs.was_locked /\ demod.locked => obs.forwarded = <<Argmax(obs.counts)>>

\* C32: while unlocked each completed symbol period shifts exactly one bit pair, that
\* of the period's modal symbol, into the lock buffer; the demodulator is locked as
\* soon as the modal symbols of the last 24 periods alternate between 0 and 3; on
\* locking the lock buffer and the symbol and sample counters are reset
C32_LockOnPattern ==
    /\ obs.kind = "sample" /\ obs.wrap /\ ~obs.was_locked
           => obs.shifted = <<XorBits(Argmax(obs.counts), 1, 2)>>
    /\ ~tx.lock_done /\ tx.alt >= LOCK_LENGTH => demod.locked
    /\ obs.kind = "sample" /\ ~obs.was_locked /\ demod.locked
           => /\ demod.lock_buffer = LockBufferZero
              /\ demod.symbol_count = 0
              /\ demod.sample_count = 0

\* C33: the timeout counter is incremented exactly once per completed symbol period,
\* and a locked demodulator drops the lock through the timeout exactly when 101
\* symbol periods have completed since the last zero crossing
C33_TimeoutCount ==
    /\ obs.kind = "sample" /\ obs.wrap => obs.incremented = 1
    /\ obs.to_drop => tx.quiet = DEMOD_TIMEOUT + 1
    /\ tx.lock_done /\ tx.quiet > DEMOD_TIMEOUT => ~demod.locked

\* C34 as stated: while locked, the 20th zero crossing in a row inside the middle 80%
\* of the symbol period, with no zero crossing outside it in between, drops the lock
C34_TwentyDrops ==
    obs.kind = "sample" /\ obs.was_locked /\ tx.inside /\ tx.run >= 20 => ~demod.locked

\* C34: while locked, a zero crossing inside the middle 80% of the symbol period drops
\* the lock exactly when more than 20 such crossings have occurred since the last
\* zero crossing outside it and since the last end of a symbol period
C34_MoreThanTwentyInPeriod ==
    obs.kind = "sample" => (obs.zc_drop <=> obs.was_locked /\ tx.inside /\ tx.mid_at > 20)

\* the 21st zero crossing inside the window of one symbol period has dropped the lock
C34_Witness == obs.zc_drop /\ tx.mid_at = 21 /\ ~demod.locked

====
